---- MODULE Spec2Model ----
(***************************************************************************)
(* Model of the CV improvement pipeline of cv_agent: the LangGraph         *)
(* workflow (workflow.py), its nodes (nodes/parsing.py, nodes/analysis.py, *)
(* nodes/improvement.py), the document parsers (tools/parsers.py) and the  *)
(* analyzer (tools/analyzers.py).                                          *)
(*                                                                         *)
(* Python strings are TLA+ strings.  Floats (confidence, the scores) are   *)
(* integers in thousandths.  Optional values are sequences: <<>> is None   *)
(* (or an absent key), <<v>> is the value v.  An ordered dict is a         *)
(* sequence of records in insertion order, keyed by the field name.        *)
(***************************************************************************)
EXTENDS Integers, Sequences, FiniteSets, TLC

VARIABLES
    cv_state,   \* the CVState record handed from node to node
    pc,         \* the node the graph runs next ("branch": the conditional edge)
    history,    \* the nodes that have run, in order
    calls       \* the parser-factory and reader calls made by parse_cv_node

vars == <<cv_state, pc, history, calls>>

-----------------------------------------------------------------------------
(* Python values *)

None == <<>>
Some(v) == <<v>>
IsNone(o) == o = <<>>
Value(o) == o[1]

-----------------------------------------------------------------------------
(* str methods *)

\* s[i-1:j]: the characters i..j of s, counted from 1, clamped to s
Sub(s, i, j) ==
    LET a == IF i < 1 THEN 1 ELSE i
        b == IF j > Len(s) THEN Len(s) ELSE j
    IN IF a > b THEN "" ELSE SubSeq(s, a, b)

\* s[i-1:i], "" outside s
CharAt(s, i) == IF i < 1 \/ i > Len(s) THEN "" ELSE SubSeq(s, i, i)

UpperChars == "ABCDEFGHIJKLMNOPQRSTUVWXYZ"
LowerChars == "abcdefghijklmnopqrstuvwxyz"
DigitChars == "0123456789"

CharsOf(chars) == {SubSeq(chars, k, k) : k \in 1..Len(chars)}

UpperSet == CharsOf(UpperChars)
LowerSet == CharsOf(LowerChars)
DigitSet == CharsOf(DigitChars)

ToLower == [c \in UpperSet |->
                SubSeq(LowerChars, CHOOSE k \in 1..26 : SubSeq(UpperChars, k, k) = c,
                                   CHOOSE k \in 1..26 : SubSeq(UpperChars, k, k) = c)]

ToUpper == [c \in LowerSet |->
                SubSeq(UpperChars, CHOOSE k \in 1..26 : SubSeq(LowerChars, k, k) = c,
                                   CHOOSE k \in 1..26 : SubSeq(LowerChars, k, k) = c)]

LowerChar(c) == IF c \in UpperSet THEN ToLower[c] ELSE c

UpperChar(c) == IF c \in LowerSet THEN ToUpper[c] ELSE c

\* s.lower() and s.upper(), by halves
RECURSIVE lower(_)
lower(s) ==
    IF Len(s) <= 1 THEN LowerChar(s)
    ELSE lower(Sub(s, 1, Len(s) \div 2)) \o lower(Sub(s, Len(s) \div 2 + 1, Len(s)))

RECURSIVE upper(_)
upper(s) ==
    IF Len(s) <= 1 THEN UpperChar(s)
    ELSE upper(Sub(s, 1, Len(s) \div 2)) \o upper(Sub(s, Len(s) \div 2 + 1, Len(s)))

\* t in s
Contains(s, t) == \E i \in 1..(Len(s) - Len(t) + 1) : Sub(s, i, i + Len(t) - 1) = t

startswith(s, t) == Len(t) <= Len(s) /\ Sub(s, 1, Len(t)) = t

\* str.find: the first index (from 1) of t in s, 0 when absent
Find(s, t) ==
    IF Contains(s, t)
    THEN CHOOSE i \in 1..(Len(s) - Len(t) + 1) :
            /\ Sub(s, i, i + Len(t) - 1) = t
            /\ \A j \in 1..(i - 1) : Sub(s, j, j + Len(t) - 1) # t
    ELSE 0

\* str.rfind: the last index (from 1) of t in s, 0 when absent
RFind(s, t) ==
    IF Contains(s, t)
    THEN CHOOSE i \in 1..(Len(s) - Len(t) + 1) :
            /\ Sub(s, i, i + Len(t) - 1) = t
            /\ \A j \in (i + 1)..(Len(s) - Len(t) + 1) : Sub(s, j, j + Len(t) - 1) # t
    ELSE 0

WhitespaceSet == CharsOf(" \t\n\r\f")

IsSpace(c) == c \in WhitespaceSet

\* s.strip(): from the first to the last character that is not whitespace
strip(s) ==
    LET black == {i \in 1..Len(s) : ~IsSpace(CharAt(s, i))}
    IN IF black = {} THEN ""
       ELSE Sub(s, CHOOSE i \in black : \A j \in black : i <= j,
                   CHOOSE i \in black : \A j \in black : i >= j)

\* s.split(sep) for a one-character separator
RECURSIVE split(_, _)
split(s, sep) ==
    LET i == Find(s, sep)
    IN IF i = 0 THEN <<s>>
       ELSE <<Sub(s, 1, i - 1)>> \o split(Sub(s, i + 1, Len(s)), sep)

\* sep.join(parts)
RECURSIVE join(_, _)
join(sep, parts) ==
    IF Len(parts) = 0 THEN ""
    ELSE IF Len(parts) = 1 THEN parts[1]
    ELSE parts[1] \o sep \o join(sep, Tail(parts))

\* s.replace(old, new): every non-overlapping occurrence, left to right; an
\* empty old matches before every character and at the end
RECURSIVE replace(_, _, _)
replace(s, old, new) ==
    IF Len(old) = 0
    THEN IF Len(s) = 0 THEN new
         ELSE new \o CharAt(s, 1) \o replace(Sub(s, 2, Len(s)), old, new)
    ELSE LET i == Find(s, old)
         IN IF i = 0 THEN s
            ELSE Sub(s, 1, i - 1) \o new \o replace(Sub(s, i + Len(old), Len(s)), old, new)

\* pathlib.Path(p).name: what follows the last slash
PathName(p) == Sub(p, RFind(p, "/") + 1, Len(p))

\* The suffix of a file name whose last dot is at index dot (0: no dot)
SuffixFrom(name, dot) == IF 1 < dot /\ dot < Len(name) THEN Sub(name, dot, Len(name)) ELSE ""

\* pathlib.Path(p).suffix
PathSuffix(p) == SuffixFrom(PathName(p), RFind(PathName(p), "."))

-----------------------------------------------------------------------------
(* tools/parsers.py: section extraction *)

\* A regex alternative of literal words separated by \s+ matches s at index i
RECURSIVE MatchWordsAt(_, _, _)
MatchWordsAt(s, i, words) ==
    LET w == words[1]
        j == i + Len(w)
    IN /\ j - 1 <= Len(s)
       /\ Sub(s, i, j - 1) = w
       /\ \/ Len(words) = 1
          \/ \E k \in 1..(Len(s) - j + 1) :
                /\ \A m \in j..(j + k - 1) : IsSpace(CharAt(s, m))
                /\ MatchWordsAt(s, j + k, Tail(words))

\* re.search(r'(?i)(alt1|alt2|...)', line), given the lowercased line
SearchPattern(alts, lowered) ==
    \E a \in 1..Len(alts) :
        IF Len(alts[a]) = 1 THEN Contains(lowered, alts[a][1])
        ELSE \E i \in 1..Len(lowered) : MatchWordsAt(lowered, i, alts[a])

\* section_patterns of DocumentParser.extract_sections, in dict order
section_patterns == <<
    [name |-> "contact", alts |-> << <<"contact">>, <<"personal", "info">>, <<"personal", "details">> >>],
    [name |-> "summary", alts |-> << <<"summary">>, <<"profile">>, <<"objective">>, <<"about">> >>],
    [name |-> "experience", alts |-> << <<"experience">>, <<"employment">>, <<"work", "history">>,
                                        <<"professional", "experience">> >>],
    [name |-> "education", alts |-> << <<"education">>, <<"academic">>, <<"qualifications">> >>],
    [name |-> "skills", alts |-> << <<"skills">>, <<"technical", "skills">>, <<"competencies">> >>],
    [name |-> "projects", alts |-> << <<"projects">>, <<"portfolio">> >>],
    [name |-> "certifications", alts |-> << <<"certifications">>, <<"certificates">>, <<"licenses">> >>],
    [name |-> "achievements", alts |-> << <<"achievements">>, <<"accomplishments">>, <<"awards">> >>],
    [name |-> "languages", alts |-> << <<"languages">>, <<"linguistic">> >>],
    [name |-> "references", alts |-> << <<"references">>, <<"referees">> >>]
>>

\* For each pattern of the table, whether the lowercased line matches it
PatternHits(lowered) ==
    [p \in 1..Len(section_patterns) |-> SearchPattern(section_patterns[p].alts, lowered)]

\* The name of the first pattern hit, in table order: None when none is
FirstHit(hit) ==
    IF \E p \in DOMAIN hit : hit[p]
    THEN Some(section_patterns[CHOOSE p \in DOMAIN hit :
                                 hit[p] /\ \A r \in 1..(p - 1) : ~hit[r]].name)
    ELSE None

\* The first pattern, in table order, that the line matches: None when none does
section_found(line) == FirstHit(PatternHits(lower(line)))

\* dict[key]: the entry of an ordered dict of records keyed by their name
HasKey(d, key) == \E i \in 1..Len(d) : d[i].name = key

Get(d, key) == d[CHOOSE i \in 1..Len(d) : d[i].name = key]

\* DictSet with the entry of an existing key left as it is
DictSetKeepFirst(d, rec) ==
    IF HasKey(d, rec.name) THEN d ELSE Append(d, rec)

\* dict[key] = rec: an existing key keeps its place in the order
DictSet(d, rec) ==
    IF HasKey(d, rec.name)
    THEN [i \in 1..Len(d) |-> IF d[i].name = rec.name THEN rec ELSE d[i]]
    ELSE Append(d, rec)

Keys(d) == [i \in 1..Len(d) |-> d[i].name]

\* confidence of a section found by the regex extractor (0.8), in thousandths
RegexConfidence == 800

CVSection(name, content, position, confidence) ==
    [name |-> name, content |-> content, position |-> position, confidence |-> confidence]

\* The loop of DocumentParser.extract_sections over lines[i..], from the
\* accumulated sections, current_section, current_content and position
RECURSIVE ExtractLoop(_, _, _, _, _, _)
RECURSIVE ExtractLine(_, _, _, _, _, _, _, _)
\* ExtractLoop with the final section saved even when nothing was collected
ExtractLoopAlwaysFlush(lines, i, sections, current_section, current_content, position) ==
    IF i > Len(lines)
    THEN DictSet(sections, CVSection(current_section, join("\n", current_content),
                                     position, RegexConfidence))
    ELSE ExtractLine(lines, i, sections, current_section, current_content, position,
                     strip(lines[i]), section_found(strip(lines[i])))

ExtractLoop(lines, i, sections, current_section, current_content, position) ==
    IF i > Len(lines)
    THEN IF Len(current_content) > 0
         THEN DictSet(sections, CVSection(current_section, join("\n", current_content),
                                          position, RegexConfidence))
         ELSE sections
    ELSE ExtractLine(lines, i, sections, current_section, current_content, position,
                     strip(lines[i]), section_found(strip(lines[i])))

\* ExtractLine with the position left as it is when a section is saved
ExtractLineKeepPosition(lines, i, sections, current_section, current_content, position, line, found) ==
    IF Len(line) = 0
    THEN ExtractLoop(lines, i + 1, sections, current_section, current_content, position)
    ELSE IF ~IsNone(found)
    THEN IF Len(current_content) > 0
         THEN ExtractLoop(lines, i + 1,
                          DictSet(sections, CVSection(current_section,
                                  join("\n", current_content), position, RegexConfidence)),
                          Value(found), <<line>>, position)
         ELSE ExtractLoop(lines, i + 1, sections, Value(found), <<line>>, position)
    ELSE ExtractLoop(lines, i + 1, sections, current_section,
                     Append(current_content, line), position)

\* The body of the loop for the stripped line and the section its header names
ExtractLine(lines, i, sections, current_section, current_content, position, line, found) ==
    IF Len(line) = 0
    THEN ExtractLoop(lines, i + 1, sections, current_section, current_content, position)
    ELSE IF ~IsNone(found)
    THEN IF Len(current_content) > 0
         THEN ExtractLoop(lines, i + 1,
                          DictSet(sections, CVSection(current_section,
                                  join("\n", current_content), position, RegexConfidence)),
                          Value(found), <<line>>, position + 1)
         ELSE ExtractLoop(lines, i + 1, sections, Value(found), <<line>>, position)
    ELSE ExtractLoop(lines, i + 1, sections, current_section,
                     Append(current_content, line), position)

\* DocumentParser.extract_sections
extract_sections(text) == ExtractLoop(split(text, "\n"), 1, <<>>, "other", <<>>, 0)

\* The conversion loop of extract_sections_with_llm over the service's sections
RECURSIVE LLMSections(_, _, _)
LLMSections(parsed, i, sections) ==
    IF i > Len(parsed) THEN sections
    ELSE LLMSections(parsed, i + 1,
                     DictSet(sections, CVSection(lower(parsed[i].name), parsed[i].content,
                                                 i - 1, parsed[i].confidence)))

\* extract_sections_with_llm with nothing returned when the service raises
extract_sections_with_llm_no_fallback(text, use_llm, llm) ==
    IF ~use_llm THEN extract_sections(text)
    ELSE IF IsNone(llm) THEN <<>>
    ELSE LLMSections(Value(llm), 1, <<>>)

\* DocumentParser.extract_sections_with_llm: llm is None when the service
\* (its construction, its call or the parsing of its output) raises, and the
\* parsed CVSectionStructure.sections otherwise
extract_sections_with_llm(text, use_llm, llm) ==
    IF ~use_llm \/ IsNone(llm) THEN extract_sections(text)
    ELSE LLMSections(Value(llm), 1, <<>>)

-----------------------------------------------------------------------------
(* tools/parsers.py: the markdown extractor of DoclingParser *)

\* section_patterns of DoclingParser.extract_sections, in dict order
markdown_patterns == <<
    [name |-> "contact", alts |-> << <<"contact">>, <<"personal", "info">>, <<"personal", "details">> >>],
    [name |-> "summary", alts |-> << <<"summary">>, <<"profile">>, <<"objective">>, <<"about">>,
                                     <<"professional", "summary">> >>],
    [name |-> "experience", alts |-> << <<"experience">>, <<"employment">>, <<"work", "history">>,
                                        <<"professional", "experience">> >>],
    [name |-> "education", alts |-> << <<"education">>, <<"academic">>, <<"qualifications">>,
                                       <<"academic", "background">> >>],
    [name |-> "skills", alts |-> << <<"skills">>, <<"technical", "skills">>, <<"competencies">>,
                                    <<"core", "competencies">> >>],
    [name |-> "projects", alts |-> << <<"projects">>, <<"portfolio">>, <<"key", "projects">> >>],
    [name |-> "certifications", alts |-> << <<"certifications">>, <<"certificates">>, <<"licenses">> >>],
    [name |-> "achievements", alts |-> << <<"achievements">>, <<"accomplishments">>, <<"awards">> >>],
    [name |-> "languages", alts |-> << <<"languages">>, <<"linguistic">>, <<"language", "skills">> >>],
    [name |-> "references", alts |-> << <<"references">>, <<"referees">> >>]
>>

\* re.match(r'(?i)^#+\s*(alt1|alt2|...)', line), given the lowercased line:
\* one or more '#', any whitespace, then an alternative
MatchHeading(alts, lowered) ==
    LET hashes == Cardinality({n \in 1..Len(lowered) : \A m \in 1..n : CharAt(lowered, m) = "#"})
        spaces == Cardinality({n \in 1..(Len(lowered) - hashes) :
                                \A m \in 1..n : IsSpace(CharAt(lowered, hashes + m))})
    IN /\ hashes >= 1
       /\ \E a \in 1..Len(alts) : MatchWordsAt(lowered, hashes + spaces + 1, alts[a])

\* The first pattern, in dict order, that the line matches: None when none does
heading_found(line) ==
    LET hit == [p \in 1..Len(markdown_patterns) |->
                    MatchHeading(markdown_patterns[p].alts, lower(line))]
    IN IF \E p \in DOMAIN hit : hit[p]
       THEN Some(markdown_patterns[CHOOSE p \in DOMAIN hit :
                                     hit[p] /\ \A r \in 1..(p - 1) : ~hit[r]].name)
       ELSE None

\* confidence_base = 0.9, in thousandths
confidence_base == 900

\* CVSection(name=current_section, content=content_text, position=position,
\* confidence=min(confidence_base + len(content_text) / 1000, 1.0))
MarkdownSection(current_section, content_text, position) ==
    CVSection(current_section, content_text, position,
              IF confidence_base + Len(content_text) < 1000
              THEN confidence_base + Len(content_text) ELSE 1000)

\* The loop of DoclingParser.extract_sections over the lines, from line i, and
\* the saving of the final section
RECURSIVE MarkdownLoop(_, _, _, _, _, _)
MarkdownLoop(lines, i, sections, current_section, current_content, position) ==
    IF i > Len(lines)
    THEN IF Len(current_content) > 0
         THEN DictSet(sections, MarkdownSection(current_section, join("\n", current_content),
                                                position))
         ELSE sections
    ELSE LET line == strip(lines[i])
             found == IF line = "" THEN None ELSE heading_found(line)
         IN IF line = ""
            THEN MarkdownLoop(lines, i + 1, sections, current_section, current_content, position)
            ELSE IF ~IsNone(found)
            THEN IF Len(current_content) > 0
                 THEN MarkdownLoop(lines, i + 1,
                                   DictSet(sections,
                                           MarkdownSection(current_section,
                                                           join("\n", current_content), position)),
                                   Value(found), <<>>, position + 1)
                 ELSE MarkdownLoop(lines, i + 1, sections, Value(found), <<>>, position)
            ELSE IF ~startswith(line, "###")
            THEN MarkdownLoop(lines, i + 1, sections, current_section,
                              Append(current_content, line), position)
            ELSE MarkdownLoop(lines, i + 1, sections, current_section, current_content, position)

\* DoclingParser.extract_sections: with use_llm, extract_sections_with_llm,
\* which returns the service's sections or those of the regex extractor and
\* never raises, so that the except clause of lines 268-270 is never entered;
\* without use_llm, the markdown extractor
docling_extract_sections(text, use_llm, llm) ==
    IF use_llm THEN extract_sections_with_llm(text, TRUE, llm)
    ELSE MarkdownLoop(split(text, "\n"), 1, <<>>, "other", <<>>, 0)

-----------------------------------------------------------------------------
(* tools/parsers.py: the parsers and their factory *)

\* The outcome of a call: a returned value or a raised exception
Return(v) == [ok |-> TRUE, value |-> v, type |-> "", msg |-> ""]
Raise(type, msg) == [ok |-> FALSE, value |-> "", type |-> type, msg |-> msg]

\* One external call of parse_cv_node, as recorded in calls: what was called,
\* on which parser, and what it returned (value) or raised (type)
Call(what, parser, outcome) ==
    [call |-> what, parser |-> parser, ok |-> outcome.ok,
     value |-> outcome.value, type |-> outcome.type]

\* The parser ParserFactory.create_parser builds for a lowercased suffix.
\* env.converter is the outcome of constructing docling's DocumentConverter
\* in DoclingParser.__init__
ParserFor(suffix, use_docling, use_llm, env) ==
    IF use_docling /\ suffix \in {".pdf", ".docx", ".doc"}
    THEN IF env.converter.ok THEN Return("DoclingParser") ELSE env.converter
    ELSE IF suffix = ".pdf" THEN Return("PDFParser")
    ELSE IF suffix \in {".docx", ".doc"} THEN Return("DocxParser")
    ELSE IF suffix = ".txt"
         THEN IF use_llm THEN Return("LLMTextParser") ELSE Return("TextParser")
    ELSE Raise("ValueError", "Unsupported file format: " \o suffix)

\* ParserFactory.create_parser: suffix = Path(file_path).suffix.lower(), then
\* the choice by suffix
create_parser(file_path, use_docling, use_llm, env) ==
    ParserFor(lower(PathSuffix(file_path)), use_docling, use_llm, env)

\* The loop of PDFParser.parse and DocxParser.parse: text += part + "\n"
RECURSIVE ConcatLines(_)
ConcatLines(parts) ==
    IF Len(parts) = 0 THEN "" ELSE parts[1] \o "\n" \o ConcatLines(Tail(parts))

\* parser.parse(file_path).  env.rich is the outcome of the converter's
\* convert and export_to_markdown; env.basic is the outcome of reading the
\* file with PyPDF2, python-docx or open: its pages, paragraphs or content
parse(parser, file_path, env) ==
    IF parser = "DoclingParser"
    THEN IF env.rich.ok THEN Return(env.rich.value)
         ELSE Raise("ValueError", "Error parsing document with Docling: " \o env.rich.msg)
    ELSE IF parser = "PDFParser"
    THEN IF env.basic.ok THEN Return(strip(ConcatLines(env.basic.value)))
         ELSE Raise("ValueError", "Error parsing PDF: " \o env.basic.msg)
    ELSE IF parser = "DocxParser"
    THEN IF env.basic.ok THEN Return(strip(ConcatLines(env.basic.value)))
         ELSE Raise("ValueError", "Error parsing DOCX: " \o env.basic.msg)
    ELSE IF env.basic.ok THEN Return(strip(join("", env.basic.value)))
         ELSE Raise("ValueError", "Error parsing text file: " \o env.basic.msg)

\* parser.extract_sections(text), by the parser's class: DoclingParser and
\* LLMTextParser are built with use_llm=True and go through
\* extract_sections_with_llm, which falls back to the regex extractor and
\* never raises; the others inherit DocumentParser.extract_sections
parser_extract_sections(parser, text, env) ==
    IF parser \in {"DoclingParser", "LLMTextParser"}
    THEN extract_sections_with_llm(text, TRUE, env.llm)
    ELSE extract_sections(text)

IsBasicReader(parser) == parser \in {"PDFParser", "DocxParser", "TextParser", "LLMTextParser"}

-----------------------------------------------------------------------------
(* Regular expressions of tools/analyzers.py, over ASCII text *)

IsDigit(c) == c \in DigitSet

\* \w
IsWordChar(c) == c \in UpperSet \/ c \in LowerSet \/ c \in DigitSet \/ c = "_"

\* \b between the characters i-1 and i of s
WordBoundary(s, i) == IsWordChar(CharAt(s, i - 1)) # IsWordChar(CharAt(s, i))

\* The length of the longest run of characters of s from index i that satisfy Is
RECURSIVE DigitRun(_, _)
DigitRun(s, i) == IF IsDigit(CharAt(s, i)) THEN 1 + DigitRun(s, i + 1) ELSE 0

RECURSIVE SpaceRun(_, _)
SpaceRun(s, i) == IF IsSpace(CharAt(s, i)) THEN 1 + SpaceRun(s, i + 1) ELSE 0

\* len(s.split()): the number of whitespace-separated words
WordCount(s) ==
    Cardinality({i \in 1..Len(s) : ~IsSpace(CharAt(s, i)) /\ (i = 1 \/ IsSpace(CharAt(s, i - 1)))})

\* s.count(c) for a single character
CountChar(s, c) == Cardinality({i \in 1..Len(s) : CharAt(s, i) = c})

\* The first of the words that s has at index i, "" when it has none of them
FirstWordAt(s, i, words) ==
    IF \E k \in 1..Len(words) : Sub(s, i, i + Len(words[k]) - 1) = words[k] /\ i + Len(words[k]) - 1 <= Len(s)
    THEN words[CHOOSE k \in 1..Len(words) :
                    /\ Sub(s, i, i + Len(words[k]) - 1) = words[k] /\ i + Len(words[k]) - 1 <= Len(s)
                    /\ \A j \in 1..(k - 1) :
                            ~(Sub(s, i, i + Len(words[j]) - 1) = words[j] /\ i + Len(words[j]) - 1 <= Len(s))]
    ELSE ""

\* r'\d+\s*(year|month)' of identify_gaps, searched in lowercased text
HasDuration(s) ==
    \E i \in 1..Len(s) :
        /\ IsDigit(CharAt(s, i))
        /\ LET j == i + DigitRun(s, i)
               k == j + SpaceRun(s, j)
           IN FirstWordAt(s, k, <<"year", "month">>) # ""

\* r'[bullets]|\*\s|\-\s' of identify_gaps (the bullet characters are not ASCII)
HasBullet(s) ==
    \E i \in 1..Len(s) : CharAt(s, i) \in {"*", "-"} /\ IsSpace(CharAt(s, i + 1))

\* All of the n characters of s from index i are digits
Digits(s, i, n) == i + n - 1 <= Len(s) /\ \A k \in i..(i + n - 1) : IsDigit(CharAt(s, k))

\* numbers_pattern of analyze_content_quality at index i of lowercased text:
\* r'\b\d+%|\b\d+\s*(million|thousand|k|m)\b|\$\d+|\b\d+\+\b'
QuantifiedLen(s, i) ==
    LET d == DigitRun(s, i)
        sp == SpaceRun(s, i + d)
        units == {u \in {"million", "thousand", "k", "m"} :
                    /\ i + d + sp + Len(u) - 1 <= Len(s)
                    /\ Sub(s, i + d + sp, i + d + sp + Len(u) - 1) = u
                    /\ WordBoundary(s, i + d + sp + Len(u))}
        unit == IF "million" \in units THEN "million"
                ELSE IF "thousand" \in units THEN "thousand"
                ELSE IF "k" \in units THEN "k" ELSE "m"
    IN IF d > 0 /\ WordBoundary(s, i) /\ CharAt(s, i + d) = "%" THEN d + 1
       ELSE IF d > 0 /\ WordBoundary(s, i) /\ units # {} THEN d + sp + Len(unit)
       ELSE IF CharAt(s, i) = "$" /\ DigitRun(s, i + 1) > 0 THEN 1 + DigitRun(s, i + 1)
       ELSE IF d > 0 /\ WordBoundary(s, i) /\ CharAt(s, i + d) = "+" /\ WordBoundary(s, i + d + 1)
       THEN d + 1
       ELSE 0

EmailLocalSet == UpperSet \cup LowerSet \cup DigitSet \cup {".", "_", "%", "+", "-"}
EmailDomainSet == UpperSet \cup LowerSet \cup DigitSet \cup {".", "-"}
EmailTldSet == UpperSet \cup LowerSet \cup {"|"}

\* ats_patterns['email']: r'\b[A-Za-z0-9._%+-]+@[A-Za-z0-9.-]+\.[A-Z|a-z]{2,}\b'
HasEmail(s) ==
    \E at \in 1..Len(s) :
        /\ CharAt(s, at) = "@"
        /\ \E i \in 1..(at - 1) :
                /\ WordBoundary(s, i)
                /\ \A k \in i..(at - 1) : CharAt(s, k) \in EmailLocalSet
        /\ \E dot \in (at + 2)..Len(s) :
                /\ CharAt(s, dot) = "."
                /\ \A k \in (at + 1)..(dot - 1) : CharAt(s, k) \in EmailDomainSet
                /\ \E e \in (dot + 2)..Len(s) :
                        /\ \A k \in (dot + 1)..e : CharAt(s, k) \in EmailTldSet
                        /\ WordBoundary(s, e + 1)

\* ats_patterns['phone']: r'\b\d{3}[-.]?\d{3}[-.]?\d{4}\b'
HasPhone(s) ==
    \E i \in 1..Len(s) : \E a \in {0, 1}, b \in {0, 1} :
        /\ WordBoundary(s, i)
        /\ Digits(s, i, 3)
        /\ a = 1 => CharAt(s, i + 3) \in {"-", "."}
        /\ Digits(s, i + 3 + a, 3)
        /\ b = 1 => CharAt(s, i + 6 + a) \in {"-", "."}
        /\ Digits(s, i + 6 + a + b, 4)
        /\ WordBoundary(s, i + 10 + a + b)

Months == {"jan", "feb", "mar", "apr", "may", "jun", "jul", "aug", "sep", "oct", "nov", "dec"}

\* The lengths a, b, c of the three numbers of r'\d{1,2}\/\d{1,2}\/\d{2,4}\b' at index i
SlashDates(s, i) ==
    {abc \in {2, 1} \X {2, 1} \X {4, 3, 2} :
        /\ Digits(s, i, abc[1]) /\ CharAt(s, i + abc[1]) = "/"
        /\ Digits(s, i + abc[1] + 1, abc[2]) /\ CharAt(s, i + abc[1] + abc[2] + 1) = "/"
        /\ Digits(s, i + abc[1] + abc[2] + 2, abc[3])
        /\ WordBoundary(s, i + abc[1] + abc[2] + abc[3] + 2)}

\* ats_patterns['dates'] at index i of lowercased text:
\* r'\b(?:jan|...|dec|\d{1,2}\/\d{1,2}\/\d{2,4}|\d{4})\b'; of the ways the
\* second alternative matches, the regex takes the greediest
DateLen(s, i) ==
    IF ~WordBoundary(s, i) THEN 0
    ELSE IF i + 2 <= Len(s) /\ Sub(s, i, i + 2) \in Months /\ WordBoundary(s, i + 3) THEN 3
    ELSE IF SlashDates(s, i) # {}
    THEN LET best == CHOOSE x \in SlashDates(s, i) : \A y \in SlashDates(s, i) :
                        \/ x[1] > y[1]
                        \/ x[1] = y[1] /\ x[2] > y[2]
                        \/ x[1] = y[1] /\ x[2] = y[2] /\ x[3] >= y[3]
         IN best[1] + best[2] + best[3] + 2
    ELSE IF Digits(s, i, 4) /\ WordBoundary(s, i + 4) THEN 4
    ELSE 0

\* ats_patterns['bullet_points'] at index i, with re.MULTILINE:
\* r'[bullets]|\*\s|\-\s|^\d+\.\s' (the bullet characters are not ASCII)
BulletLen(s, i) ==
    LET d == DigitRun(s, i)
    IN IF CharAt(s, i) \in {"*", "-"} /\ IsSpace(CharAt(s, i + 1)) THEN 2
       ELSE IF /\ (i = 1 \/ CharAt(s, i - 1) = "\n")
               /\ d > 0 /\ CharAt(s, i + d) = "." /\ IsSpace(CharAt(s, i + d + 1))
       THEN d + 2
       ELSE 0

\* The length of the match of a pattern that starts at i (0: none)
MatchLen(pattern, s, i) ==
    IF pattern = "quantified" THEN QuantifiedLen(s, i)
    ELSE IF pattern = "date" THEN DateLen(s, i)
    ELSE BulletLen(s, i)

\* len(re.findall(pattern, s)): the non-overlapping matches counted from
\* index i on
RECURSIVE CountMatches(_, _, _)
CountMatches(pattern, s, i) ==
    LET starts == {j \in i..Len(s) : MatchLen(pattern, s, j) > 0}
    IN IF starts = {} THEN 0
       ELSE LET first == CHOOSE j \in starts : \A k \in starts : j <= k
            IN 1 + CountMatches(pattern, s, first + MatchLen(pattern, s, first))

\* re.search(rf'\b{word}\b', s, re.IGNORECASE), given the lowercased s
HasWord(lowered, word) ==
    \E i \in 1..(Len(lowered) - Len(word) + 1) :
        /\ Sub(lowered, i, i + Len(word) - 1) = word
        /\ WordBoundary(lowered, i)
        /\ WordBoundary(lowered, i + Len(word))

Min(a, b) == IF a < b THEN a ELSE b

\* sum(1 for w in words if w in s)
CountContained(s, words) == Cardinality({k \in 1..Len(words) : Contains(s, words[k])})

\* round(x, 0) of the float x that approximates n / d, for integers n >= 0 and
\* d > 0: the integer nearest to n / d and, when n / d lies halfway between
\* two integers, either of them, as the float lies on either side of n / d
round(n, d) ==
    IF 2 * (n % d) > d THEN {n \div d + 1}
    ELSE IF 2 * (n % d) < d THEN {n \div d}
    ELSE {n \div d, n \div d + 1}

-----------------------------------------------------------------------------
(* tools/analyzers.py *)

\* Scores are exact fractions: a section score and the formatting score count
\* units of 1/30000, the ATS score units of 1/1000
ScoreUnit == 30000

action_verbs == <<"achieved", "developed", "managed", "led", "created", "implemented",
                  "improved", "increased", "reduced", "optimized", "delivered",
                  "collaborated", "designed", "built", "analyzed", "executed">>

\* The score of one section in analyze_content_quality, in units of 1/30000
ContentScore(section_name, content) ==
    LET ideal == IF section_name = "summary" THEN 50
                 ELSE IF section_name = "experience" THEN 200 ELSE 30
        length == (Min(WordCount(content), ideal) * 9000) \div ideal
        verbs == Min(CountContained(content, action_verbs), 5) * 1800
        quantified == Min(CountMatches("quantified", content, 1), 3) * 4000
    IN Min(length + verbs + quantified, ScoreUnit)

\* content = section.content.lower(), then the score of the content
SectionScore(section_name, section) == ContentScore(section_name, lower(section.content))

\* CVAnalyzer.analyze_content_quality: section name -> score, in dict order
analyze_content_quality(sections) ==
    [i \in 1..Len(sections) |->
        [name |-> sections[i].name, score |-> SectionScore(sections[i].name, sections[i])]]

ats_section_headers == <<"experience", "education", "skills", "summary", "contact",
                         "projects", "certifications", "achievements">>

\* CVAnalyzer.check_ats_compatibility, in units of 1/1000
AtsScore(raw_text, lowered) ==
    LET email == IF HasEmail(raw_text) THEN 200 ELSE 0
        phone == IF HasPhone(raw_text) THEN 200 ELSE 0
        dates == Min(CountMatches("date", lowered, 1), 5) * 40
        bullets == Min(CountMatches("bullet", raw_text, 1), 10) * 20
        headers == Min(Cardinality({k \in 1..Len(ats_section_headers) :
                                        HasWord(lowered, ats_section_headers[k])}), 5) * 40
    IN Min(email + phone + dates + bullets + headers, 1000)

check_ats_compatibility(raw_text) == AtsScore(raw_text, lower(raw_text))

industry_keywords == <<
    [name |-> "technology",
     words |-> <<"python", "java", "javascript", "react", "node.js", "aws", "docker",
                 "kubernetes", "sql", "mongodb", "api", "microservices", "agile",
                 "scrum", "git", "ci/cd", "devops", "machine learning", "ai">>],
    [name |-> "marketing",
     words |-> <<"seo", "sem", "google analytics", "social media", "content marketing",
                 "campaign management", "lead generation", "conversion optimization",
                 "brand management", "market research", "digital marketing">>],
    [name |-> "finance",
     words |-> <<"financial analysis", "budgeting", "forecasting", "excel", "financial modeling",
                 "risk management", "compliance", "audit", "tax", "investment analysis">>]
>>

\* CVAnalyzer.calculate_keyword_density: the fraction <<found, of>>; 0.5 is <<1, 2>>
calculate_keyword_density(content, target_industry) ==
    IF IsNone(target_industry) \/ Value(target_industry) = ""
       \/ ~HasKey(industry_keywords, lower(Value(target_industry)))
    THEN <<1, 2>>
    ELSE LET industry_words == Get(industry_keywords, lower(Value(target_industry))).words
         IN <<CountContained(lower(content), industry_words), Len(industry_words)>>

professional_indicators == <<"experience", "skills", "education", "professional", "career">>

\* CVAnalyzer.analyze_formatting, in units of 1/30000
\* len([line for line in lines if line.strip()])
NonEmpty(lines) == Cardinality({i \in 1..Len(lines) : strip(lines[i]) # ""})

\* The formatting score of a text of total_lines lines, non_empty of them
\* not blank, and word_count words
FormattingScore(raw_text, total_lines, non_empty, word_count) ==
    LET consistent == IF non_empty > 10 THEN 9000 ELSE 0
        whitespace == IF 10 * total_lines > 12 * non_empty THEN 6000 ELSE 0
        length == IF 300 <= word_count /\ word_count <= 800 THEN 9000
                  ELSE IF word_count < 300 THEN 3000 ELSE 0
        tone == Min(CountContained(lower(raw_text), professional_indicators), 3) * 2000
    IN Min(consistent + whitespace + length + tone, ScoreUnit)

analyze_formatting(raw_text) ==
    FormattingScore(raw_text, Len(split(raw_text, "\n")), NonEmpty(split(raw_text, "\n")),
                    WordCount(raw_text))

RECURSIVE SumScores(_)
SumScores(scores) == IF Len(scores) = 0 THEN 0 ELSE scores[1].score + SumScores(Tail(scores))

\* The weights of the overall score (0.4, 0.25, 0.2, 0.15), in hundredths
content_weight == 40
ats_weight == 25
keyword_weight == 20
format_weight == 15

\* The overall score, in thousandths, times 3000nL: with S the sum of the n
\* section scores (units of 1/30000), A the ATS score (thousandths), K/L the
\* keyword density and F the formatting score (units of 1/30000), the
\* overall score is
\*   0.4*S/(30000n) + 0.25*A/1000 + 0.2*K/L + 0.15*F/30000
WeightedSum(S, n, A, K, L, F) ==
    content_weight * S * L + ats_weight * A * 30 * n * L
        + keyword_weight * K * 30000 * n + format_weight * F * n * L

\* The same sum, times 3000n, of the rounded scores: keyword_density and
\* formatting_score in thousandths
WeightedSumOfRounded(S, n, A, keyword_density, formatting_score) ==
    content_weight * S
        + (ats_weight * A + keyword_weight * keyword_density
            + format_weight * formatting_score) * 30 * n

\* AnalysisScore(overall_score=..., section_scores=..., ...) of models/state.py
Report(section_scores, overall_score, ats_compatibility, keyword_density, formatting_score, content_quality) ==
    [overall_score |-> overall_score,
     section_scores |-> section_scores,
     ats_compatibility |-> ats_compatibility,
     keyword_density |-> keyword_density,
     formatting_score |-> formatting_score,
     content_quality |-> content_quality]

\* AnalysisScore with the overall score computed from the rounded components
AnalysisScoreFromRounded(section_scores, S, n, A, K, L, F) ==
    UNION {{Report(section_scores, o, A, k, f, c) :
                o \in round(WeightedSumOfRounded(S, n, A, k, f), 3000 * n),
                c \in round(S, 30 * n)} :
           k \in round(1000 * Min(K, L), L), f \in round(F, 30)}

\* AnalysisScore with the analyses added up without their weights
AnalysisScoreUnweighted(section_scores, S, n, A, K, L, F) ==
    {Report(section_scores, o, A, k, f, c) :
        o \in round(S * L + A * 30 * n * L + Min(K, L) * 30000 * n + F * n * L, 30 * n * L),
        k \in round(1000 * Min(K, L), L),
        f \in round(F, 30),
        c \in round(S, 30 * n)}

\* The return of CVAnalyzer.generate_analysis_score: the AnalysisScore records
\* it can build, their rounded fields in thousandths and their section
\* scores, which are not rounded, in units of 1/30000.  The overall score is
\* rounded from the analyses as computed, not from their rounded values
AnalysisScore(section_scores, S, n, A, K, L, F) ==
    {Report(section_scores, o, A, k, f, c) :
        o \in round(WeightedSum(S, n, A, Min(K, L), L, F), 3000 * n * L),
        k \in round(1000 * Min(K, L), L),
        f \in round(F, 30),
        c \in round(S, 30 * n)}

\* The AnalysisScore built from the four analyses
CombineScores(section_scores, A, keyword, F) ==
    AnalysisScore(section_scores, SumScores(section_scores),
                  IF Len(section_scores) = 0 THEN 1 ELSE Len(section_scores),
                  A, keyword[1], keyword[2], F)

generate_analysis_score(sections, raw_text, target_industry) ==
    CombineScores(analyze_content_quality(sections), check_ats_compatibility(raw_text),
                  calculate_keyword_density(raw_text, target_industry),
                  analyze_formatting(raw_text))

\* CVAnalyzer.identify_gaps
identify_gaps(sections) ==
    LET essential(section) ==
            IF ~HasKey(sections, section)
            THEN <<"Missing essential section: " \o section>>
            ELSE IF WordCount(Get(sections, section).content) < 10
            THEN <<"Insufficient content in " \o section \o " section">>
            ELSE <<>>
        recommended(section) ==
            IF ~HasKey(sections, section)
            THEN <<"Consider adding " \o section \o " section">>
            ELSE <<>>
        experience ==
            IF HasKey(sections, "experience")
            THEN (IF ~HasDuration(lower(Get(sections, "experience").content))
                  THEN <<"Experience section lacks duration information">> ELSE <<>>)
                 \o (IF ~HasBullet(Get(sections, "experience").content)
                     THEN <<"Experience section would benefit from bullet points">> ELSE <<>>)
            ELSE <<>>
        skills ==
            IF HasKey(sections, "skills")
               /\ CountChar(Get(sections, "skills").content, ",") + 1 < 5
            THEN <<"Skills section appears limited - consider adding more relevant skills">>
            ELSE <<>>
    IN essential("experience") \o essential("skills") \o essential("education")
       \o recommended("summary") \o recommended("contact") \o experience \o skills

-----------------------------------------------------------------------------
(* nodes/parsing.py *)

\* What the try block of parse_cv_node ends with: the values it computed, or
\* the message of the exception it raised, and the calls it made
Parsed(raw_text, file_format, sections, log) ==
    [ok |-> TRUE, raw_text |-> raw_text, file_format |-> file_format,
     parsed_sections |-> sections, msg |-> "", calls |-> log]

Failed(msg, log) ==
    [ok |-> FALSE, raw_text |-> "", file_format |-> "", parsed_sections |-> <<>>,
     msg |-> msg, calls |-> log]

\* parsed_sections = parser.extract_sections(raw_text), after parser.parse
\* returned or raised as read says
AfterParse(parser, file_format, env, log, read) ==
    IF read.ok
    THEN Parsed(read.value, file_format, parser_extract_sections(parser, read.value, env),
                Append(log, Call("parse", parser, read)))
    ELSE Failed(read.msg, Append(log, Call("parse", parser, read)))

\* raw_text = parser.parse(file_path); parsed_sections = parser.extract_sections(raw_text)
ParseAndExtract(parser, file_path, file_format, env, log) ==
    AfterParse(parser, file_format, env, log, parse(parser, file_path, env))

\* The handler of ImportError (lines 35-40), given the outcome of
\* create_parser(file_path, use_docling=False, use_llm=True)
ImportErrorFallback(file_path, file_format, env, log, created) ==
    IF created.ok
    THEN ParseAndExtract(created.value, file_path, file_format, env,
                         Append(log, Call("create_parser(use_docling=False)", created.value, created)))
    ELSE Failed(created.msg,
                Append(log, Call("create_parser(use_docling=False)", created.value, created)))

\* The file path branch of the try block (lines 25-40), given the outcome of
\* create_parser(file_path, use_docling=True, use_llm=True)
ParseFile(file_path, file_format, env, created) ==
    IF created.ok
    THEN ParseAndExtract(created.value, file_path, file_format, env,
                         <<Call("create_parser(use_docling=True)", created.value, created)>>)
    ELSE IF created.type = "ImportError"
    THEN ImportErrorFallback(file_path, file_format, env,
                             <<Call("create_parser(use_docling=True)", created.value, created)>>,
                             create_parser(file_path, FALSE, TRUE, env))
    ELSE Failed(created.msg, <<Call("create_parser(use_docling=True)", created.value, created)>>)

\* The text branch of the try block (lines 41-46), given the outcome of
\* create_parser("dummy.txt", use_docling=False, use_llm=True)
ParseText(text, env, created) ==
    Parsed(text, "txt", parser_extract_sections(created.value, text, env),
           <<Call("create_parser(use_docling=False)", created.value, created)>>)

\* Path(file_path).suffix.lower()[1:] if Path(file_path).suffix else 'unknown'
FormatOf(suffix) == IF suffix # "" THEN Sub(lower(suffix), 2, Len(suffix)) ELSE "unknown"

\* ParseTry with only a leading '/' taken for a file path
ParseTryRootOnly(state, env) ==
    IF startswith(state.original_cv, "/")
    THEN ParseFile(state.original_cv, FormatOf(PathSuffix(state.original_cv)), env,
                   create_parser(state.original_cv, TRUE, TRUE, env))
    ELSE ParseText(state.original_cv, env, create_parser("dummy.txt", FALSE, TRUE, env))

\* The try block of parse_cv_node (lines 22-54)
ParseTry(state, env) ==
    IF startswith(state.original_cv, "/") \/ startswith(state.original_cv, "./")
    THEN ParseFile(state.original_cv, FormatOf(PathSuffix(state.original_cv)), env,
                   create_parser(state.original_cv, TRUE, TRUE, env))
    ELSE ParseText(state.original_cv, env, create_parser("dummy.txt", FALSE, TRUE, env))

\* ParseFailure with the error left out of processing_errors
ParseFailureUnrecorded(state, error_message, elapsed) ==
    [state EXCEPT !.raw_text = "",
                  !.file_format = "unknown",
                  !.parsed_sections = <<>>,
                  !.processing_time = Some(elapsed)]

\* The record parse_cv_node returns when it gives up (lines 100-107)
ParseFailure(state, error_message, elapsed) ==
    [state EXCEPT !.raw_text = "",
                  !.file_format = "unknown",
                  !.parsed_sections = <<>>,
                  !.processing_time = Some(elapsed),
                  !.processing_errors = <<error_message>>]

\* The condition under which the except block tries the traditional parsers (line 79)
ShouldFallback(state, msg) ==
    Contains(lower(msg), "docling") /\ startswith(state.original_cv, "/")

\* The fallback of the except block (lines 80-86), given the outcome of
\* create_parser(file_path, use_docling=False, use_llm=True)
ExceptFallback(file_path, env, log, created) ==
    IF created.ok
    THEN ParseAndExtract(created.value, file_path,
                         Sub(lower(PathSuffix(file_path)), 2, Len(PathSuffix(file_path))), env,
                         Append(log, Call("create_parser(use_docling=False)", created.value, created)))
    ELSE Failed(created.msg,
                Append(log, Call("create_parser(use_docling=False)", created.value, created)))

\* FallbackReturn with a successful fallback reported without an entry
FallbackReturnSilent(state, env, tried, again) ==
    IF again.ok
    THEN [state |-> [state EXCEPT
                        !.raw_text = again.raw_text,
                        !.file_format = again.file_format,
                        !.parsed_sections = again.parsed_sections,
                        !.processing_time = Some(env.elapsed),
                        !.processing_errors = <<>>],
          calls |-> again.calls]
    ELSE [state |-> ParseFailure(state,
                        "Both Docling and fallback parsing failed: " \o tried.msg
                            \o ", " \o again.msg, env.elapsed),
          calls |-> again.calls]

\* What the except block returns after its fallback ended as again says
\* (lines 87-98: the fallback's values, or the failure of both)
FallbackReturn(state, env, tried, again) ==
    IF again.ok
    THEN [state |-> [state EXCEPT
                        !.raw_text = again.raw_text,
                        !.file_format = again.file_format,
                        !.parsed_sections = again.parsed_sections,
                        !.processing_time = Some(env.elapsed),
                        !.processing_errors =
                            <<"Docling failed, used fallback parser: " \o tried.msg>>],
          calls |-> again.calls]
    ELSE [state |-> ParseFailure(state,
                        "Both Docling and fallback parsing failed: " \o tried.msg
                            \o ", " \o again.msg, env.elapsed),
          calls |-> again.calls]

\* The except block of parse_cv_node (lines 74-107), given the try block's outcome
ParseExcept(state, env, tried) ==
    IF ShouldFallback(state, tried.msg)
    THEN FallbackReturn(state, env, tried,
                        ExceptFallback(state.original_cv, env, tried.calls,
                                       create_parser(state.original_cv, FALSE, TRUE, env)))
    ELSE [state |-> ParseFailure(state, "Error in parse_cv_node: " \o tried.msg, env.elapsed),
          calls |-> tried.calls]

\* What parse_cv_node returns after its try block ended as tried says
ParseReturn(state, env, tried) ==
    IF tried.ok
    THEN [state |-> [state EXCEPT
                        !.raw_text = tried.raw_text,
                        !.file_format = tried.file_format,
                        !.parsed_sections = tried.parsed_sections,
                        !.processing_time = Some(env.elapsed),
                        !.processing_errors = <<>>],
          calls |-> tried.calls]
    ELSE ParseExcept(state, env, tried)

\* parse_cv_node: the record it returns and the calls it made
parse_cv_node(state, env) == ParseReturn(state, env, ParseTry(state, env))

-----------------------------------------------------------------------------
(* nodes/analysis.py *)

\* errors = state.get("processing_errors", []); errors.append(error_message)
WithError(state, error_message) ==
    [state EXCEPT !.processing_errors = Append(@, error_message)]

\* analyze_quality_node.  analysis_scores is the AnalysisScore that
\* analyzer.generate_analysis_score returned; raised is None, or the message
\* of an exception
\* raised inside the try block
analyze_quality_node(state, raised, analysis_scores) ==
    IF IsNone(raised)
    THEN [state EXCEPT
            !.analysis_scores = Some(analysis_scores),
            !.identified_gaps = identify_gaps(state.parsed_sections)]
    ELSE [WithError(state, "Error in analyze_quality_node: " \o Value(raised)) EXCEPT
            !.analysis_scores = None,
            !.identified_gaps = <<>>]

role_keywords == <<
    [name |-> "software engineer",
     words |-> <<"programming", "coding", "development", "software", "algorithms",
                 "data structures", "debugging", "testing", "version control">>],
    [name |-> "data scientist",
     words |-> <<"machine learning", "statistics", "python", "r", "sql", "data analysis",
                 "visualization", "modeling", "pandas", "numpy", "scikit-learn">>],
    [name |-> "product manager",
     words |-> <<"product strategy", "roadmap", "stakeholder management", "agile",
                 "user experience", "market research", "analytics", "prioritization">>],
    [name |-> "marketing manager",
     words |-> <<"campaign management", "digital marketing", "seo", "sem", "analytics",
                 "brand management", "content strategy", "lead generation">>]
>>

\* missing_keywords[:5]
MaxKeywordsListed == 5

\* match_requirements_node with every missing keyword listed
match_requirements_listing_all(state, raised) ==
    IF IsNone(raised)
    THEN LET target_role == state.target_role
             raw_text == lower(state.raw_text)
             known == /\ ~IsNone(target_role) /\ Value(target_role) # ""
                      /\ HasKey(role_keywords, lower(Value(target_role)))
             missing(keyword) == ~Contains(raw_text, keyword)
             missing_keywords ==
                IF known THEN SelectSeq(Get(role_keywords, lower(Value(target_role))).words, missing)
                ELSE <<>>
         IN IF Len(missing_keywords) > 0
            THEN [state EXCEPT !.identified_gaps =
                    Append(@, "Consider adding keywords relevant to " \o Value(target_role) \o ": "
                              \o join(", ", missing_keywords))]
            ELSE state
    ELSE WithError(state, "Error in match_requirements_node: " \o Value(raised))

\* match_requirements_node
match_requirements_node(state, raised) ==
    IF IsNone(raised)
    THEN LET target_role == state.target_role
             raw_text == lower(state.raw_text)
             known == /\ ~IsNone(target_role) /\ Value(target_role) # ""
                      /\ HasKey(role_keywords, lower(Value(target_role)))
             missing(keyword) == ~Contains(raw_text, keyword)
             missing_keywords ==
                IF known THEN SelectSeq(Get(role_keywords, lower(Value(target_role))).words, missing)
                ELSE <<>>
         IN IF Len(missing_keywords) > 0
            THEN [state EXCEPT !.identified_gaps =
                    Append(@, "Consider adding keywords relevant to " \o Value(target_role) \o ": "
                              \o join(", ", SubSeq(missing_keywords, 1,
                                                   Min(MaxKeywordsListed, Len(missing_keywords)))))]
            ELSE state
    ELSE WithError(state, "Error in match_requirements_node: " \o Value(raised))

-----------------------------------------------------------------------------
(* nodes/improvement.py *)

Improvement(section, type, original_text, improved_text, reasoning, priority, confidence) ==
    [section |-> section, type |-> type, original_text |-> original_text,
     improved_text |-> improved_text, reasoning |-> reasoning,
     priority |-> priority, confidence |-> confidence]

\* content[:100] + "..." if len(content) > 100 else content
OriginalTextLimit == 100

\* generate_content_improvements with no default improvement when the
\* service raises
generate_content_improvements_no_default(section_name, content, raised) ==
    IF IsNone(raised) /\ section_name = "experience"
    THEN <<Improvement(section_name, "content", content,
                "Enhanced with quantified achievements and stronger action verbs",
                "Added specific metrics and impact measurements to demonstrate value",
                "high", 850)>>
    ELSE <<>>

\* ImprovementGenerator.generate_content_improvements.  raised is None, or the
\* message of the exception raised by self.model.invoke
generate_content_improvements(section_name, content, raised) ==
    IF IsNone(raised)
    THEN (IF section_name = "experience"
          THEN <<Improvement(section_name, "content",
                    IF Len(content) > OriginalTextLimit
                    THEN Sub(content, 1, OriginalTextLimit) \o "..." ELSE content,
                    "Enhanced with quantified achievements and stronger action verbs",
                    "Added specific metrics and impact measurements to demonstrate value",
                    "high", 850)>>
          ELSE <<>>)
         \o (IF section_name = "skills"
             THEN <<Improvement(section_name, "keyword", content,
                        "Added industry-relevant technical skills and certifications",
                        "Includes keywords commonly searched by ATS systems",
                        "medium", 800)>>
             ELSE <<>>)
    ELSE <<Improvement(section_name, "content", content,
                "Content needs enhancement for better impact",
                "Error generating specific improvements: " \o Value(raised),
                "medium", 500)>>

common_headers == <<"experience", "education", "skills", "summary">>

\* ImprovementGenerator.generate_formatting_improvements (the bullet
\* characters other than '*' and '-' are not ASCII)
generate_formatting_improvements(raw_text) ==
    LET lowered == lower(raw_text)
        absent(h) == ~Contains(lowered, lower(h))
        missing_headers == SelectSeq(common_headers, absent)
    IN (IF ~(Contains(raw_text, "*") \/ Contains(raw_text, "-"))
        THEN <<Improvement("format", "format", "Plain text format",
                    "Use bullet points for better readability",
                    "Bullet points improve ATS compatibility and readability",
                    "medium", 900)>>
        ELSE <<>>)
       \o (IF Len(missing_headers) > 0
           THEN <<Improvement("structure", "structure", "Current section organization",
                    "Add clear section headers: " \o join(", ", missing_headers),
                    "Clear section headers improve document structure and ATS parsing",
                    "high", 950)>>
           ELSE <<>>)

\* The loop of generate_improvements_node over parsed_sections, from entry i.
\* invoke maps a section name to None, or to the message of the exception the
\* service raises when asked about that section
RECURSIVE ContentImprovements(_, _, _)
ContentImprovements(parsed_sections, i, invoke) ==
    IF i > Len(parsed_sections) THEN <<>>
    ELSE (IF parsed_sections[i].content # ""
          THEN generate_content_improvements(parsed_sections[i].name, parsed_sections[i].content,
                                             invoke[parsed_sections[i].name])
          ELSE <<>>)
         \o ContentImprovements(parsed_sections, i + 1, invoke)

\* generate_improvements_node.  env.init is None, or the message of the
\* exception raised in the try block (by the construction of the generator)
generate_improvements_node(state, env) ==
    IF IsNone(env.init)
    THEN [state EXCEPT !.suggested_improvements =
            ContentImprovements(state.parsed_sections, 1, env.invoke)
            \o generate_formatting_improvements(state.raw_text)]
    ELSE [WithError(state, "Error in generate_improvements_node: " \o Value(env.init)) EXCEPT
            !.suggested_improvements = <<>>]

\* priority == "high" and confidence > 0.7, in thousandths
ConfidenceThreshold == 700

MeetsThreshold(improvement) ==
    improvement.priority = "high" /\ improvement.confidence > ConfidenceThreshold

\* ApplyOne with the priority left out of the condition
ApplyOneAnyPriority(acc, improvement) ==
    IF improvement.confidence > ConfidenceThreshold
    THEN [applied |-> Append(acc.applied, improvement),
          sections |->
            IF /\ HasKey(acc.sections, improvement.section)
               /\ Contains(Get(acc.sections, improvement.section).content, improvement.original_text)
            THEN DictSet(acc.sections,
                         [Get(acc.sections, improvement.section) EXCEPT
                            !.content = replace(@, improvement.original_text,
                                                improvement.improved_text)])
            ELSE acc.sections]
    ELSE acc

\* The body of the loop of apply_improvements_node for one improvement (lines 210-225)
ApplyOne(acc, improvement) ==
    IF MeetsThreshold(improvement)
    THEN [applied |-> Append(acc.applied, improvement),
          sections |->
            IF /\ HasKey(acc.sections, improvement.section)
               /\ Contains(Get(acc.sections, improvement.section).content, improvement.original_text)
            THEN DictSet(acc.sections,
                         [Get(acc.sections, improvement.section) EXCEPT
                            !.content = replace(@, improvement.original_text,
                                                improvement.improved_text)])
            ELSE acc.sections]
    ELSE acc

\* The loop of apply_improvements_node (lines 209-225)
RECURSIVE ApplyLoop(_, _, _)
ApplyLoop(suggested, i, acc) ==
    IF i > Len(suggested) THEN acc
    ELSE ApplyLoop(suggested, i + 1, ApplyOne(acc, suggested[i]))

\* enhanced_cv_parts (lines 228-230)
EnhancedParts(sections) ==
    [i \in 1..Len(sections) |-> upper(sections[i].name) \o "\n" \o sections[i].content \o "\n"]

\* summary_parts (lines 235-237)
SummaryParts(applied) == [i \in 1..Len(applied) |-> "- " \o applied[i].reasoning]

\* apply_improvements_node with the sections amended in place, not in a copy
apply_improvements_in_place(state, raised) ==
    IF IsNone(raised)
    THEN LET done == ApplyLoop(state.suggested_improvements, 1,
                               [applied |-> <<>>, sections |-> state.parsed_sections])
         IN [state EXCEPT
                !.parsed_sections = done.sections,
                !.applied_improvements = done.applied,
                !.enhanced_cv = Some(join("\n", EnhancedParts(done.sections))),
                !.enhancement_summary =
                    Some(IF Len(done.applied) > 0
                         THEN "Applied improvements:\n" \o join("\n", SummaryParts(done.applied))
                         ELSE "No high-priority improvements applied")]
    ELSE [WithError(state, "Error in apply_improvements_node: " \o Value(raised)) EXCEPT
            !.applied_improvements = <<>>,
            !.enhanced_cv = Some(state.raw_text),
            !.enhancement_summary = Some("Error applying improvements: " \o Value(raised))]

\* apply_improvements_node.  raised is None, or the message of an exception
\* raised inside the try block
apply_improvements_node(state, raised) ==
    IF IsNone(raised)
    THEN LET done == ApplyLoop(state.suggested_improvements, 1,
                               [applied |-> <<>>, sections |-> state.parsed_sections])
         IN [state EXCEPT
                !.applied_improvements = done.applied,
                !.enhanced_cv = Some(join("\n", EnhancedParts(done.sections))),
                !.enhancement_summary =
                    Some(IF Len(done.applied) > 0
                         THEN "Applied improvements:\n" \o join("\n", SummaryParts(done.applied))
                         ELSE "No high-priority improvements applied")]
    ELSE [WithError(state, "Error in apply_improvements_node: " \o Value(raised)) EXCEPT
            !.applied_improvements = <<>>,
            !.enhanced_cv = Some(state.raw_text),
            !.enhancement_summary = Some("Error applying improvements: " \o Value(raised))]

-----------------------------------------------------------------------------
(* tools/user_interaction.py: the parser of the service's suggestions *)

\* The markers of the fields of a suggestion and the keys they are stored under
suggestion_markers == <<
    [marker |-> "- **Why**:", key |-> "reason"],
    [marker |-> "- **Action**:", key |-> "action"],
    [marker |-> "- **Priority**:", key |-> "priority"],
    [marker |-> "- **Impact**:", key |-> "impact"]
>>

\* current_suggestion[key] = value, on a dict kept as a function of its keys
SetKey(dict, key, value) ==
    [k \in DOMAIN dict \cup {key} |-> IF k = key THEN value ELSE dict[k]]

\* The branch of the loop a stripped line takes: 0 for a suggestion header,
\* the index of the first marker the line starts with, or 5 for any other line
SuggestionBranch(line) ==
    IF startswith(line, "**Suggestion") /\ Contains(line, ":") THEN 0
    ELSE IF \E m \in 1..Len(suggestion_markers) : startswith(line, suggestion_markers[m].marker)
    THEN CHOOSE m \in 1..Len(suggestion_markers) :
            /\ startswith(line, suggestion_markers[m].marker)
            /\ \A r \in 1..(m - 1) : ~startswith(line, suggestion_markers[r].marker)
    ELSE 5

\* The value a field line gives: the line without its marker, stripped, and
\* lowercased for the priority
FieldValue(line, m) ==
    LET value == strip(replace(line, suggestion_markers[m].marker, ""))
    IN IF suggestion_markers[m].key = "priority" THEN lower(value) ELSE value

\* The loop of _parse_suggestions_from_response over the lines, from line i,
\* and the appending of the last suggestion
RECURSIVE ParseSuggestionLines(_, _, _, _)
ParseSuggestionLines(lines, i, suggestions, current_suggestion) ==
    IF i > Len(lines)
    THEN IF DOMAIN current_suggestion # {}
         THEN Append(suggestions, current_suggestion) ELSE suggestions
    ELSE LET line == strip(lines[i])
             branch == SuggestionBranch(line)
         IN IF branch = 0
            THEN ParseSuggestionLines(lines, i + 1,
                    IF DOMAIN current_suggestion # {}
                    THEN Append(suggestions, current_suggestion) ELSE suggestions,
                    [title |-> replace(strip(Sub(line, Find(line, ":") + 1, Len(line))),
                                       "**", "")])
            ELSE IF branch = 5
            THEN ParseSuggestionLines(lines, i + 1, suggestions, current_suggestion)
            ELSE ParseSuggestionLines(lines, i + 1, suggestions,
                    SetKey(current_suggestion, suggestion_markers[branch].key,
                           FieldValue(line, branch)))

\* UserInteractionManager._parse_suggestions_from_response
parse_suggestions_from_response(response_text) ==
    ParseSuggestionLines(split(response_text, "\n"), 1, <<>>, <<>>)

-----------------------------------------------------------------------------
(* workflow.py *)

\* should_apply_improvements with confidence >= 0.7 in place of > 0.7
should_apply_at_threshold(state) ==
    IF \E i \in 1..Len(state.suggested_improvements) :
            /\ state.suggested_improvements[i].priority = "high"
            /\ state.suggested_improvements[i].confidence >= ConfidenceThreshold
    THEN "apply_improvements"
    ELSE "quality_check"

\* should_apply_improvements asking only for a suggestion, whatever it is
should_apply_any(state) ==
    IF Len(state.suggested_improvements) > 0 THEN "apply_improvements" ELSE "quality_check"

\* should_apply_improvements: the name of the node the conditional edge picks
should_apply_improvements(state) ==
    IF \E i \in 1..Len(state.suggested_improvements) :
            /\ state.suggested_improvements[i].priority = "high"
            /\ state.suggested_improvements[i].confidence > ConfidenceThreshold
    THEN "apply_improvements"
    ELSE "quality_check"

\* final_quality_score with and without applied improvements, in thousandths
EnhancedQuality == 850
BaseQuality == 700

\* bool(x) of an Optional[str]
Truthy(o) == ~IsNone(o) /\ Value(o) # ""

\* quality_check_node looking at applied_improvements only
quality_check_ignoring_text(state) ==
    [state EXCEPT
        !.final_quality_score =
            Some(IF Len(state.applied_improvements) > 0 THEN EnhancedQuality ELSE BaseQuality),
        !.processing_complete = Some(TRUE)]

\* quality_check_node testing enhanced_cv against None, not its truth value
quality_check_any_text(state) ==
    [state EXCEPT
        !.final_quality_score =
            Some(IF ~IsNone(state.enhanced_cv) /\ Len(state.applied_improvements) > 0
                 THEN EnhancedQuality ELSE BaseQuality),
        !.processing_complete = Some(TRUE)]

\* quality_check_node
quality_check_node(state) ==
    [state EXCEPT
        !.final_quality_score =
            Some(IF Truthy(state.enhanced_cv) /\ Len(state.applied_improvements) > 0
                 THEN EnhancedQuality ELSE BaseQuality),
        !.processing_complete = Some(TRUE)]

\* The places of the graph: its nodes, the conditional edge and END
Locations == {"parse_cv", "analyze_quality", "match_requirements", "generate_improvements",
              "branch", "apply_improvements", "quality_check", "end"}

\* The edges with apply_improvements wired to END
edge_apply_to_end(node) ==
    CASE node = "parse_cv" -> "analyze_quality"
      [] node = "analyze_quality" -> "match_requirements"
      [] node = "match_requirements" -> "generate_improvements"
      [] node = "generate_improvements" -> "branch"
      [] node = "apply_improvements" -> "end"
      [] node = "quality_check" -> "end"

\* The edges with analyze_quality wired past match_requirements
edge_skipping_match(node) ==
    CASE node = "parse_cv" -> "analyze_quality"
      [] node = "analyze_quality" -> "generate_improvements"
      [] node = "match_requirements" -> "generate_improvements"
      [] node = "generate_improvements" -> "branch"
      [] node = "apply_improvements" -> "quality_check"
      [] node = "quality_check" -> "end"

\* The edges of create_cv_improvement_workflow (lines 72-88): the node that
\* follows node; "branch" is the conditional edge, "end" is END
edge(node) ==
    CASE node = "parse_cv" -> "analyze_quality"
      [] node = "analyze_quality" -> "match_requirements"
      [] node = "match_requirements" -> "generate_improvements"
      [] node = "generate_improvements" -> "branch"
      [] node = "apply_improvements" -> "quality_check"
      [] node = "quality_check" -> "end"

-----------------------------------------------------------------------------
(* The inputs and the environment of a run *)

\* Bounds of the model
MaxElapsed == 1

TextSummaryExperienceSkills == "SUMMARY\nDev.\nEXPERIENCE\nBuilt things.\nSKILLS\nPython"
TextNoHeaders == "John Doe\nEngineer"
TextAllHeaders == "Summary\n- Dev\nExperience\n- Built things\nEducation\nBSc\nSkills\nPython"

LongContent ==
    "Experience: built the billing platform, the search service, the mobile gateway and the data warehouse 2019-2024"

CVInputs == {TextSummaryExperienceSkills, TextNoHeaders, TextAllHeaders, "", "cv.pdf",
             "/cv.pdf", "./cv.pdf", "/docs/cv.DOCX", "/cv.txt", "/cv"}

Roles == {None, Some("Software Engineer"), Some("Astronaut")}

Industries == {None, Some("Technology")}

\* What the converter's constructor can do: succeed, be missing, or fail
ConverterOutcomes == {Return("converter"),
                      Raise("ImportError", "No module named 'docling'"),
                      Raise("RuntimeError", "Docling models could not be loaded"),
                      Raise("MemoryError", "out of memory")}

RichOutcomes == {Return("# Summary\nDev.\n\n## Experience\n- Built things\n\n## Skills\nPython"),
                 Raise("ConversionError", "conversion failed")}

BasicOutcomes(path) == {Return(<<"Experience", "Built things", "Skills", "Python">>),
                        Raise("FileNotFoundError", "No such file or directory: " \o path)}

\* What the section extraction service can do: raise (None) or return sections
LLMOutcomes == {None,
                Some(<<[name |-> "Experience", content |-> LongContent, confidence |-> 900],
                       [name |-> "Skills", content |-> "Python", confidence |-> 950]>>),
                Some(<<[name |-> "Profile", content |-> "Dev. summary skills education experience - x",
                        confidence |-> 700]>>)}

ParseEnvs(cv) ==
    [converter : ConverterOutcomes, rich : RichOutcomes, basic : BasicOutcomes(cv),
     llm : LLMOutcomes, elapsed : 0..MaxElapsed]

-----------------------------------------------------------------------------
(* The run of the graph *)

\* CVImprovementAgent.process_cv: the initial CVState (lines 114-130)
initial_state(cv_input, target_role, target_industry) ==
    [original_cv |-> cv_input,
     file_format |-> "unknown",
     target_role |-> target_role,
     target_industry |-> target_industry,
     parsed_sections |-> <<>>,
     raw_text |-> "",
     analysis_scores |-> None,
     identified_gaps |-> <<>>,
     suggested_improvements |-> <<>>,
     applied_improvements |-> <<>>,
     enhanced_cv |-> None,
     enhancement_summary |-> None,
     processing_errors |-> <<>>,
     processing_time |-> None,
     model_used |-> Some("gpt-4.1-mini"),
     final_quality_score |-> None,
     processing_complete |-> None]

Init ==
    /\ \E cv \in CVInputs, role \in Roles, industry \in Industries :
            cv_state = initial_state(cv, role, industry)
    /\ pc = "parse_cv"
    /\ history = <<>>
    /\ calls = <<>>

\* Messages of the exceptions raised inside the nodes after parse_cv
StageFailures == {None, Some("service unavailable")}

\* The outcomes of the generator's construction and of its call per section
GenerateEnvs(state) ==
    [init : StageFailures,
     invoke : [{state.parsed_sections[i].name : i \in 1..Len(state.parsed_sections)}
                -> StageFailures]]

\* A node has run: it is recorded and the graph moves along the node's edge
Ran(node) ==
    /\ pc' = edge(node)
    /\ history' = Append(history, node)

ParseCV ==
    /\ pc = "parse_cv"
    /\ \E env \in ParseEnvs(cv_state.original_cv) :
            \E out \in {parse_cv_node(cv_state, env)} :
                /\ cv_state' = out.state
                /\ calls' = out.calls
    /\ Ran("parse_cv")

AnalyzeQuality ==
    /\ pc = "analyze_quality"
    /\ \E raised \in StageFailures :
            \E analysis_scores \in generate_analysis_score(cv_state.parsed_sections,
                                                          cv_state.raw_text,
                                                          cv_state.target_industry) :
                cv_state' = analyze_quality_node(cv_state, raised, analysis_scores)
    /\ Ran("analyze_quality")
    /\ UNCHANGED calls

MatchRequirements ==
    /\ pc = "match_requirements"
    /\ \E raised \in StageFailures : cv_state' = match_requirements_node(cv_state, raised)
    /\ Ran("match_requirements")
    /\ UNCHANGED calls

GenerateImprovements ==
    /\ pc = "generate_improvements"
    /\ \E env \in GenerateEnvs(cv_state) : cv_state' = generate_improvements_node(cv_state, env)
    /\ Ran("generate_improvements")
    /\ UNCHANGED calls

\* The conditional edge after generate_improvements
Branch ==
    /\ pc = "branch"
    /\ pc' = should_apply_improvements(cv_state)
    /\ UNCHANGED <<cv_state, history, calls>>

ApplyImprovements ==
    /\ pc = "apply_improvements"
    /\ \E raised \in StageFailures : cv_state' = apply_improvements_node(cv_state, raised)
    /\ Ran("apply_improvements")
    /\ UNCHANGED calls

QualityCheck ==
    /\ pc = "quality_check"
    /\ cv_state' = quality_check_node(cv_state)
    /\ Ran("quality_check")
    /\ UNCHANGED calls

Next ==
    \/ ParseCV
    \/ AnalyzeQuality
    \/ MatchRequirements
    \/ GenerateImprovements
    \/ Branch
    \/ ApplyImprovements
    \/ QualityCheck

Spec == Init /\ [][Next]_vars

\* The graph runner runs the node at pc, or follows the conditional edge,
\* until the run reaches END, and it does not stop on its own before.  A
\* step of the run moves pc, and one is possible whenever pc is not END:
\* every action of Next is guarded by pc alone
Advance == pc # "end" /\ pc' \in Locations

FairSpec == Spec /\ WF_pc(Advance)

-----------------------------------------------------------------------------
(* The functions of the graph called directly on a record, as the unit     *)
(* tests call them: a run from parse_cv for one input, and the conditional *)
(* edge on the record of a run with any list of suggested improvements     *)

MaxSuggested == 2

DirectImprovements ==
    {Improvement(section, "content", original_text, "Shipped", "Stronger verb", pc_[1], pc_[2]) :
        section \in {"experience", "hobbies"},
        original_text \in {"Built", "Managed"},
        pc_ \in {<<"high", 850>>, <<"high", 700>>, <<"high", 500>>,
                 <<"medium", 900>>, <<"low", 950>>}}

DirectSuggestions == UNION {[1..n -> DirectImprovements] : n \in 0..MaxSuggested}

\* The record that reaches generate_improvements in a run on TextAllHeaders
DirectBase ==
    LET env == [converter |-> Return("converter"),
                rich |-> Return(""), basic |-> Return(<<>>), llm |-> None, elapsed |-> 0]
        parsed == parse_cv_node(initial_state(TextAllHeaders, None, None), env).state
        analysis_scores == CHOOSE score \in generate_analysis_score(parsed.parsed_sections,
                                                                    parsed.raw_text, None) : TRUE
    IN match_requirements_node(analyze_quality_node(parsed, None, analysis_scores), None)

\* A record that already carries a gap and a diagnostic when parse_cv_node
\* receives it, as in test_parse_cv_node_preserves_state
DirectPreserved ==
    [initial_state(TextNoHeaders, Some("Software Engineer"), Some("technology")) EXCEPT
        !.identified_gaps = <<"existing gap">>,
        !.processing_errors = <<"existing error">>]

\* Texts with all, with some and with none of the keywords of a role
RoleTexts ==
    {"Programming, coding, development of SOFTWARE: algorithms, data structures, debugging, testing, version control",
     "programming coding development software algorithms testing",
     ""}

\* Roles: absent, empty, known in two spellings, unknown, and known but for a
\* trailing space
DirectRoles ==
    {None, Some(""), Some("Software Engineer"), Some("SOFTWARE ENGINEER"), Some("Astronaut"),
     Some("software engineer ")}

\* The records match_requirements_node is called on: the text and the gaps
\* of a record that went through the stages before it
DirectMatch ==
    {[initial_state(raw_text, target_role, None) EXCEPT
        !.file_format = "txt", !.raw_text = raw_text, !.identified_gaps = gaps] :
        raw_text \in RoleTexts, target_role \in DirectRoles,
        gaps \in {<<>>, <<"existing gap">>}}

InitDirect ==
    /\ \/ /\ pc = "parse_cv"
          /\ \E cv \in {TextSummaryExperienceSkills, "/cv.doc"} :
                cv_state = initial_state(cv, None, None)
       \/ /\ pc = "parse_cv"
          /\ cv_state = DirectPreserved
       \/ /\ pc = "match_requirements"
          /\ cv_state \in DirectMatch
       \/ /\ pc = "branch"
          /\ \E suggested \in DirectSuggestions :
                cv_state = [DirectBase EXCEPT !.suggested_improvements = suggested]
    /\ history = <<>>
    /\ calls = <<>>

DirectSpec == InitDirect /\ [][Next]_vars

-----------------------------------------------------------------------------
(* The tools called directly on a text, as their unit tests call them: the *)
(* section extractor, with and without the service, and the analyzer       *)

MaxLines == 3

\* The lines the texts are made of: two headers, a padded header, a body
\* line and a blank line
ExtractLines == {"SUMMARY", "Experience", "  Skills ", "Dev.", ""}

TextRich ==
    "Contact: jo@ex.io 555-123-4567\nExperience\n- Led team 2019, improved sales 20%\n\nSkills\nPython, Docker"

\* Two headers, differently worded, of the section experience
TextTwoExperience == "Experience\nDev.\nWork History"

Texts ==
    {join("\n", lines) : lines \in UNION {[1..n -> ExtractLines] : n \in 0..MaxLines}}
        \cup {TextSummaryExperienceSkills, TextAllHeaders, TextRich, TextTwoExperience}

ToolIndustries == {None, Some("Technology"), Some("astrology")}

\* What the section extraction service can do when called on a text
ToolLLMOutcomes ==
    {None, Some(<<[name |-> "Experience", content |-> "Built things", confidence |-> 900],
                  [name |-> "Skills", content |-> "Python", confidence |-> 950]>>)}

InitTools ==
    /\ \E text \in Texts : cv_state = [initial_state(text, None, None) EXCEPT !.raw_text = text]
    /\ pc = "tools"
    /\ history = <<>>
    /\ calls = <<>>

\* A run of an extractor on the text: recorded, and its map kept in the record
Extracted(what, llm, sections) ==
    /\ calls' = Append(calls, [call |-> what, llm |-> llm, sections |-> sections])
    /\ cv_state' = [cv_state EXCEPT !.parsed_sections = sections]
    /\ UNCHANGED <<pc, history>>

\* DocumentParser.extract_sections(text), run at most twice on the text
ExtractSections ==
    /\ pc = "tools"
    /\ Len(calls) < 2
    /\ IsNone(cv_state.analysis_scores)
    /\ Extracted("extract_sections", None, extract_sections(cv_state.raw_text))

\* LLMDocumentParser.extract_sections(text): extract_sections_with_llm(text, use_llm=True)
ExtractSectionsWithLLM ==
    /\ pc = "tools"
    /\ Len(calls) < 2
    /\ IsNone(cv_state.analysis_scores)
    /\ \E llm \in ToolLLMOutcomes :
            Extracted("extract_sections_with_llm", llm,
                      extract_sections_with_llm(cv_state.raw_text, TRUE, llm))

\* CVAnalyzer.generate_analysis_score(sections, raw_text, target_industry) on
\* the sections of an extraction
GenerateAnalysisScore ==
    /\ pc = "tools"
    /\ Len(calls) = 1
    /\ IsNone(cv_state.analysis_scores)
    /\ \E target_industry \in ToolIndustries :
            \E analysis_scores \in generate_analysis_score(cv_state.parsed_sections,
                                                          cv_state.raw_text, target_industry) :
                cv_state' = [cv_state EXCEPT
                                !.target_industry = target_industry,
                                !.analysis_scores = Some(analysis_scores)]
    /\ UNCHANGED <<pc, history, calls>>

NextTools ==
    \/ ExtractSections
    \/ ExtractSectionsWithLLM
    \/ GenerateAnalysisScore

ToolSpec == InitTools /\ [][NextTools]_vars

-----------------------------------------------------------------------------
(* The improvement generator called directly on one section, with the gaps *)
(* and the role that go into its prompt                                    *)

\* One section, of a name the generator knows or not, with a short, a long
\* or no content
InitGenerator ==
    /\ \E name \in {"experience", "skills", "summary", "other"},
          content \in {"Dev.", LongContent, ""},
          gaps \in {<<>>, <<"experience lacks numbers">>},
          target_role \in {None, Some("Software Engineer")} :
            cv_state = [initial_state(content, target_role, None) EXCEPT
                            !.raw_text = content,
                            !.parsed_sections = <<CVSection(name, content, 0, RegexConfidence)>>,
                            !.identified_gaps = gaps]
    /\ pc = "tools"
    /\ history = <<>>
    /\ calls = <<>>

\* generator.generate_content_improvements(section_name, content, gaps,
\* target_role): gaps and target_role go into the prompt only, and
\* self.model.invoke returns or raises one of two exceptions
GenerateContentImprovements ==
    /\ pc = "tools"
    /\ calls = <<>>
    /\ \E raised \in {None, Some("service unavailable"), Some("")} :
            /\ cv_state' = [cv_state EXCEPT !.suggested_improvements =
                    generate_content_improvements(cv_state.parsed_sections[1].name,
                                                  cv_state.parsed_sections[1].content, raised)]
            /\ calls' = <<[call |-> "generate_content_improvements", raised |-> raised]>>
    /\ UNCHANGED <<pc, history>>

GeneratorSpec == InitGenerator /\ [][GenerateContentImprovements]_vars

-----------------------------------------------------------------------------
(* DoclingParser.extract_sections called directly on a markdown text, as   *)
(* its unit test calls it, with and without the service                    *)

\* The lines the markdown texts are made of: a heading and a second-level
\* heading of a section, a sub-heading with and one without the name of a
\* section, and a body line
MarkdownLines == {"# Experience", "## Skills", "### Summary", "### Details", "Dev."}

TextMarkdown == "# Summary\nDev.\n\n## Experience\n- Built things\n\n## Skills\nPython"

InitMarkdown ==
    /\ \E text \in {join("\n", lines) :
                        lines \in UNION {[1..n -> MarkdownLines] : n \in 0..MaxLines}}
                    \cup {TextMarkdown} :
            cv_state = [initial_state(text, None, None) EXCEPT !.raw_text = text]
    /\ pc = "tools"
    /\ history = <<>>
    /\ calls = <<>>

\* DoclingParser(use_llm).extract_sections(text): the service raises or
\* returns sections
DoclingExtractSections ==
    /\ pc = "tools"
    /\ calls = <<>>
    /\ \E use_llm \in BOOLEAN, llm \in ToolLLMOutcomes :
            \E sections \in {docling_extract_sections(cv_state.raw_text, use_llm, llm)} :
                /\ cv_state' = [cv_state EXCEPT !.parsed_sections = sections]
                /\ calls' = <<[call |-> "DoclingParser.extract_sections", use_llm |-> use_llm,
                               llm |-> llm, sections |-> sections]>>
    /\ UNCHANGED <<pc, history>>

MarkdownSpec == InitMarkdown /\ [][DoclingExtractSections]_vars

-----------------------------------------------------------------------------
(* The suggestion parser called directly on a response of the service *)

\* The lines the responses are made of: a suggestion header, its four field
\* lines and a field line without its marker
ResponseLines ==
    {"**Suggestion 1: Add metrics**", "- **Why**: Shows impact", "- **Action**: Add numbers",
     "- **Priority**: High", "- **Impact**: More interviews", "Why: Shows impact"}

\* A response in the format asked for, with two suggestions
ResponseComplete ==
    "**Suggestion 1: Add metrics**\n- **Why**: Shows impact\n- **Action**: Add numbers\n- **Priority**: High\n- **Impact**: More interviews\n\n**Suggestion 2: Add a summary**\n- **Why**: Sets the scene\n- **Action**: Write three lines\n- **Priority**: Medium\n- **Impact**: Clearer profile"

InitSuggestions ==
    /\ cv_state = initial_state("", None, None)
    /\ pc = "tools"
    /\ history = <<>>
    /\ calls = <<>>

\* self._parse_suggestions_from_response(response.content), on any response
ParseSuggestions ==
    /\ pc = "tools"
    /\ calls = <<>>
    /\ \E response \in {join("\n", lines) :
                            lines \in UNION {[1..n -> ResponseLines] : n \in 0..MaxLines}}
                        \cup {ResponseComplete} :
            calls' = <<[call |-> "_parse_suggestions_from_response", response |-> response,
                        suggestions |-> parse_suggestions_from_response(response)]>>
    /\ UNCHANGED <<cv_state, pc, history>>

SuggestionSpec == InitSuggestions /\ [][ParseSuggestions]_vars

-----------------------------------------------------------------------------
(* Properties of the run *)

\* The elements of a sequence
Range(seq) == {seq[i] : i \in 1..Len(seq)}

IsPrefix(a, b) == Len(a) <= Len(b) /\ SubSeq(b, 1, Len(a)) = a

\* The two orders in which a complete run visits the nodes
FullOrder == <<"parse_cv", "analyze_quality", "match_requirements", "generate_improvements",
               "apply_improvements", "quality_check">>

ShortOrder == <<"parse_cv", "analyze_quality", "match_requirements", "generate_improvements",
                "quality_check">>

\* Some suggested improvement has priority 'high' and confidence above 0.7
SomeHighConfident(suggested) ==
    \E i \in 1..Len(suggested) : suggested[i].priority = "high" /\ suggested[i].confidence > 700

\* C1: every run eventually ends after quality_check, with processing_complete
\* True in the record, whatever the input and whichever stages fail
C1_ReachesQualityCheck ==
    <>(/\ pc = "end"
       /\ history # <<>> /\ history[Len(history)] = "quality_check"
       /\ cv_state.processing_complete = Some(TRUE))

\* C1 witness: a run ends complete after the loader, the analysis, the
\* matching and the application of improvements have all failed
C1_Witness ==
    /\ pc = "end"
    /\ cv_state.processing_complete = Some(TRUE)
    /\ "apply_improvements" \in Range(history)
    /\ Len(cv_state.processing_errors) = 4

\* C2: the nodes run in the fixed order, apply_improvements being optional:
\* what has run is a prefix of one of the two orders (so no node runs twice
\* and none runs before its predecessor), the node about to run is the next
\* of that order, the branch is taken right after generate_improvements, and
\* the run ends only after a whole order
C2_FixedOrder ==
    /\ IsPrefix(history, FullOrder) \/ IsPrefix(history, ShortOrder)
    /\ pc \in Range(FullOrder) =>
            \/ IsPrefix(Append(history, pc), FullOrder)
            \/ IsPrefix(Append(history, pc), ShortOrder)
    /\ pc = "branch" => history = SubSeq(FullOrder, 1, 4)
    /\ pc = "end" => history \in {FullOrder, ShortOrder}
    /\ pc \in Locations

\* C2 witness: a run that went through all six nodes and ended
C2_Witness == pc = "end" /\ history = FullOrder

\* C3: the conditional edge goes to apply_improvements exactly when some
\* suggested improvement has priority 'high' and confidence > 0.7, and to
\* quality_check otherwise
C3_BranchCondition ==
    [][pc = "branch" =>
        /\ pc' = "apply_improvements" <=> SomeHighConfident(cv_state.suggested_improvements)
        /\ pc' = "quality_check" <=> ~SomeHighConfident(cv_state.suggested_improvements)]_vars

\* C3 witness: the edge has sent to quality_check a record whose only
\* high-priority suggestions have a confidence of exactly 0.7
C3_Witness ==
    /\ pc = "quality_check" /\ history = <<>>
    /\ \E i \in 1..Len(cv_state.suggested_improvements) :
            /\ cv_state.suggested_improvements[i].priority = "high"
            /\ cv_state.suggested_improvements[i].confidence = 700

\* C4: every applied improvement is one of the suggested improvements, of
\* priority 'high' and confidence > 0.7
C4_AppliedSubset ==
    \A i \in 1..Len(cv_state.applied_improvements) :
        /\ cv_state.applied_improvements[i] \in Range(cv_state.suggested_improvements)
        /\ cv_state.applied_improvements[i].priority = "high"
        /\ cv_state.applied_improvements[i].confidence > 700

\* C4 witness: some but not all of the suggested improvements were applied
C4_Witness ==
    /\ Len(cv_state.applied_improvements) > 0
    /\ Len(cv_state.applied_improvements) < Len(cv_state.suggested_improvements)

\* The sections as they are when apply_improvements_node comes to the k-th
\* suggested improvement
SectionsBefore(state, k) ==
    ApplyLoop(SubSeq(state.suggested_improvements, 1, k - 1), 1,
              [applied |-> <<>>, sections |-> state.parsed_sections]).sections

\* C5: once apply_improvements has run, a suggested improvement is among the
\* applied ones only if it meets the threshold, its section exists among the
\* sections and its original_text occurs in that section's content
C5_AppliedOnlyIfMatched ==
    "apply_improvements" \in Range(history) =>
        \A k \in 1..Len(cv_state.suggested_improvements) :
            cv_state.suggested_improvements[k] \in Range(cv_state.applied_improvements) =>
                /\ cv_state.suggested_improvements[k].priority = "high"
                /\ cv_state.suggested_improvements[k].confidence > 700
                /\ HasKey(SectionsBefore(cv_state, k), cv_state.suggested_improvements[k].section)
                /\ Contains(Get(SectionsBefore(cv_state, k),
                                cv_state.suggested_improvements[k].section).content,
                            cv_state.suggested_improvements[k].original_text)

\* C6: quality_check sets final_quality_score to 0.85 exactly when enhanced_cv
\* is present and not empty and some improvement was applied, and to 0.70
\* otherwise; it sets processing_complete and changes no other field
C6_QualityCheck ==
    [][pc = "quality_check" =>
        /\ cv_state'.final_quality_score =
                Some(IF /\ cv_state.enhanced_cv # None
                        /\ cv_state.enhanced_cv # Some("")
                        /\ Len(cv_state.applied_improvements) >= 1
                     THEN 850 ELSE 700)
        /\ cv_state'.processing_complete = Some(TRUE)
        /\ DOMAIN cv_state' = DOMAIN cv_state
        /\ \A field \in DOMAIN cv_state \ {"final_quality_score", "processing_complete"} :
                cv_state'[field] = cv_state[field]]_vars

\* C6 witness: quality_check has scored 0.85 a record with an enhanced text
\* and an applied improvement
C6_Witness ==
    /\ pc = "end"
    /\ cv_state.final_quality_score = Some(850)
    /\ cv_state.enhanced_cv # None /\ cv_state.enhanced_cv # Some("")
    /\ Len(cv_state.applied_improvements) >= 1

\* C7: in a run whose suggested improvements hold none of priority 'high'
\* and confidence > 0.7, apply_improvements does not run, quality_check
\* comes right after generate_improvements, applied_improvements stays
\* empty, enhanced_cv stays unset and the final score is 0.70
C7_NoApplyWithoutCandidate ==
    ("generate_improvements" \in Range(history)
        /\ ~SomeHighConfident(cv_state.suggested_improvements)) =>
            /\ pc # "apply_improvements"
            /\ "apply_improvements" \notin Range(history)
            /\ pc \in {"branch", "quality_check", "end"}
            /\ cv_state.applied_improvements = <<>>
            /\ cv_state.enhanced_cv = None
            /\ pc = "end" => /\ history = ShortOrder
                             /\ cv_state.final_quality_score = Some(700)

\* C7 witness: a run with suggestions, none of them a candidate, has ended
C7_Witness ==
    /\ pc = "end"
    /\ Len(cv_state.suggested_improvements) > 0
    /\ ~SomeHighConfident(cv_state.suggested_improvements)
    /\ cv_state.final_quality_score = Some(700)

\* The loading failed: the last call parse_cv_node made raised
LoadFailed == calls # <<>> /\ ~calls[Len(calls)].ok

\* C8: when loading fails, parse_cv_node returns raw_text "", file_format
\* 'unknown', no sections and exactly one error, and the run goes on to
\* analyze_quality
C8_FailedLoadRecord ==
    (history = <<"parse_cv">> /\ LoadFailed) =>
        /\ cv_state.raw_text = ""
        /\ cv_state.file_format = "unknown"
        /\ cv_state.parsed_sections = <<>>
        /\ Len(cv_state.processing_errors) = 1
        /\ cv_state.processing_errors[1] # ""
        /\ pc = "analyze_quality"

\* C8 witness: the rich converter and then the basic reader have both failed
C8_Witness ==
    /\ history = <<"parse_cv">>
    /\ Len(calls) = 4 /\ ~calls[2].ok /\ ~calls[4].ok
    /\ pc = "analyze_quality"

\* The rich converter was unavailable or raised: its construction or its
\* parse failed
RichFailed ==
    \E i \in 1..Len(calls) :
        /\ ~calls[i].ok
        /\ \/ calls[i].call = "create_parser(use_docling=True)"
           \/ calls[i].call = "parse" /\ calls[i].parser = "DoclingParser"

\* The reads of the file made with a basic reader
BasicReads == {i \in 1..Len(calls) : calls[i].call = "parse" /\ IsBasicReader(calls[i].parser)}

\* C9: for a path with a PDF or DOCX extension, whenever the rich converter
\* is unavailable or raises, the basic reader is tried exactly once
C9_RetriesWithBasicReader ==
    (/\ "parse_cv" \in Range(history)
     /\ lower(PathSuffix(cv_state.original_cv)) \in {".pdf", ".docx"}
     /\ RichFailed) => Cardinality(BasicReads) = 1

\* The rich converter failed for a .pdf path and the basic reader succeeded
PdfFallbackSucceeded ==
    /\ "parse_cv" \in Range(history)
    /\ lower(PathSuffix(cv_state.original_cv)) = ".pdf"
    /\ RichFailed
    /\ \E i \in BasicReads : calls[i].ok

-----------------------------------------------------------------------------
(* Properties of the loader's input, of the diagnostics and of the gaps *)

\* The input begins with '/' or './'
LooksLikePath(input) == Sub(input, 1, 1) = "/" \/ Sub(input, 1, 2) = "./"

\* parse_cv_node took its input for the path of a file: it asked the factory
\* for the parser of that file, the rich converter allowed
TreatedAsPath == calls # <<>> /\ calls[1].call = "create_parser(use_docling=True)"

\* C11: parse_cv takes its input for a file path iff the input begins with
\* '/' or './'; any other input is raw text: no file is read, raw_text is the
\* input unchanged, file_format is 'txt' and processing_errors is empty
C11_PathOrRawText ==
    history = <<"parse_cv">> =>
        /\ TreatedAsPath <=> LooksLikePath(cv_state.original_cv)
        /\ ~LooksLikePath(cv_state.original_cv) =>
                /\ \A i \in 1..Len(calls) : calls[i].call # "parse"
                /\ cv_state.raw_text = cv_state.original_cv
                /\ cv_state.file_format = "txt"
                /\ cv_state.processing_errors = <<>>

\* An input that names a file but begins with neither '/' nor './' has been
\* taken for raw text
C11_Witness ==
    /\ history = <<"parse_cv">>
    /\ cv_state.original_cv = "cv.pdf"
    /\ cv_state.raw_text = "cv.pdf"
    /\ cv_state.file_format = "txt"
    /\ \A i \in 1..Len(calls) : calls[i].call # "parse"

-----------------------------------------------------------------------------
(* Properties of the section extractor *)

\* The lines of a text that are not blank, stripped, in document order
ContentLines(text) ==
    LET lines == split(text, "\n")
        NotBlank(line) == line # ""
    IN SelectSeq([i \in 1..Len(lines) |-> strip(lines[i])], NotBlank)

\* The section each content line names, if it matches a header pattern
Found(lines) == [i \in 1..Len(lines) |-> section_found(lines[i])]

\* The lines, among content lines, that match a header pattern
Headers(found) == {i \in 1..Len(found) : ~IsNone(found[i])}

\* The k-th header, in document order
NthHeader(H, k) == CHOOSE h \in H : Cardinality({g \in H : g < h}) = k - 1

\* The block of a header: its line and the lines up to the next header
BlockContent(lines, H, h) ==
    LET later == {g \in H : g > h}
        last == IF later = {} THEN Len(lines)
                ELSE (CHOOSE g \in later : \A f \in later : g <= f) - 1
    IN join("\n", SubSeq(lines, h, last))

\* The number of blocks before the block of a header: the earlier headers
\* and the content before the first header, if any
BlockOrdinal(H, h) == Cardinality({g \in H : g < h}) + (IF 1 \in H THEN 0 ELSE 1)

\* The maps returned by the runs of the regex extractor and the outcomes of
\* the runs of the service-backed extractor
RegexRuns == {i \in 1..Len(calls) : calls[i].call = "extract_sections"}

ServiceRuns == {i \in 1..Len(calls) : calls[i].call = "extract_sections_with_llm"}

RegexMaps == {calls[i].sections : i \in RegexRuns}

\* The text begins with a header and no two of its headers name one section
DistinctHeadersFromStart(found, H) ==
    /\ 1 \in H
    /\ \A g, h \in H : g # h => found[g] # found[h]

\* The sections are those of the headers H, in document order, with the
\* ordinals 0, 1, ...
OneSectionPerHeader(found, H, sections) ==
    /\ Len(sections) = Cardinality(H)
    /\ \A k \in 1..Len(sections) :
            /\ sections[k].name = Value(found[NthHeader(H, k)])
            /\ sections[k].position = k - 1

\* What C14 says of the maps extracted from a text with headers H
HeadersInOrder(found, H, maps) ==
    DistinctHeadersFromStart(found, H) =>
        \A sections \in maps : OneSectionPerHeader(found, H, sections)

\* The same of the lines, with their headers found once
HeadersInOrderOf(found, maps) == HeadersInOrder(found, Headers(found), maps)

HeadersInOrderOfLines(lines, maps) == HeadersInOrderOf(Found(lines), maps)

\* C14: for a text of N header lines of distinct sections, each followed by
\* lines that match no header pattern, with nothing before the first header,
\* the regex extractor returns exactly N sections, in document order, with
\* ordinals 0..N-1
C14_HeadersInOrder ==
    RegexMaps # {} => HeadersInOrderOfLines(ContentLines(cv_state.raw_text), RegexMaps)

\* The scenario SUMMARY/EXPERIENCE/SKILLS has been extracted
C14_Witness ==
    /\ cv_state.raw_text = TextSummaryExperienceSkills
    /\ \E i \in RegexRuns :
            /\ Keys(calls[i].sections) = <<"summary", "experience", "skills">>
            /\ \A k \in 1..3 : calls[i].sections[k].position = k - 1

\* No content line matches a header pattern
NoHeaders(lines) == \A i \in 1..Len(lines) : IsNone(section_found(lines[i]))

\* What C15 as stated says of the maps extracted from a text
WholeDocument(text, lines, maps) ==
    NoHeaders(lines) =>
        \A sections \in maps :
            /\ Len(sections) = 1
            /\ sections[1].name = "other"
            /\ sections[1].position = 0
            /\ sections[1].content = text

\* C15 as stated: for a text in which no line matches a header pattern, the
\* extractor returns exactly one section, 'other', with ordinal 0, whose
\* content is the whole document
C15_NoHeadersWholeDocument ==
    RegexMaps # {} =>
        WholeDocument(cv_state.raw_text, ContentLines(cv_state.raw_text), RegexMaps)

\* What C15 says of the maps extracted from the content lines of a text
OneOther(lines, maps) ==
    NoHeaders(lines) =>
        \A sections \in maps :
            IF lines = <<>>
            THEN sections = <<>>
            ELSE /\ Len(sections) = 1
                 /\ sections[1].name = "other"
                 /\ sections[1].position = 0
                 /\ sections[1].content = join("\n", lines)

\* C15: for a text in which no line matches a header pattern, the extractor
\* returns no section when every line is blank, and otherwise exactly one
\* section, 'other', with ordinal 0, whose content is the lines of the text
\* that are not blank, stripped and joined by newlines
C15_NoHeadersOneOther ==
    RegexMaps # {} => OneOther(ContentLines(cv_state.raw_text), RegexMaps)

\* A text without headers and with a blank line has been extracted: its one
\* section holds the text without the blank line
C15_Witness ==
    /\ cv_state.raw_text = "Dev.\n\nDev."
    /\ \E i \in RegexRuns :
            /\ Keys(calls[i].sections) = <<"other">>
            /\ calls[i].sections[1].content = "Dev.\nDev."

\* The headers that name the section of header h
SameSection(found, H, h) == {g \in H : found[g] = found[h]}

\* The last headers of the sections that two or more headers name
LastOfRepeated(found, H) ==
    {h \in H : \E g \in H : g < h /\ found[g] = found[h]}
        \ {g \in H : \E h \in H : g < h /\ found[g] = found[h]}

\* The map has one entry of the name, with the content and the ordinal of
\* the block of header h, and no entry holds another content of earlier
\* blocks of that name
HoldsBlock(lines, H, sections, h, name, content, earlier) ==
    /\ Cardinality({k \in 1..Len(sections) : sections[k].name = name}) = 1
    /\ Get(sections, name).content = content
    /\ Get(sections, name).position = BlockOrdinal(H, h)
    /\ \A g \in earlier :
            \A k \in 1..Len(sections) :
                sections[k].content = BlockContent(lines, H, g) => sections[k].content = content

\* What C16 says of the maps extracted from the lines with headers H
LaterBlockOverwrites(lines, found, H, maps) ==
    \A h \in LastOfRepeated(found, H) :
        \A sections \in maps :
            HoldsBlock(lines, H, sections, h, Value(found[h]), BlockContent(lines, H, h),
                       SameSection(found, H, h) \ {h})

\* The same of the lines, with their headers found once
LaterBlockOverwritesOf(lines, found, maps) ==
    LaterBlockOverwrites(lines, found, Headers(found), maps)

LaterBlockOverwritesOfLines(lines, maps) == LaterBlockOverwritesOf(lines, Found(lines), maps)

\* C16: when two header lines name the same section, the map has exactly one
\* entry of that name, with the content and the ordinal of the last block of
\* that name, and no entry holds the content of an earlier block
C16_LaterBlockOverwrites ==
    RegexMaps # {} => LaterBlockOverwritesOfLines(ContentLines(cv_state.raw_text), RegexMaps)

\* Two blocks of the section experience have been extracted: the entry holds
\* the second one
C16_Witness ==
    /\ cv_state.raw_text = TextTwoExperience
    /\ \E i \in RegexRuns :
            calls[i].sections = <<CVSection("experience", "Work History", 1, RegexConfidence)>>

\* C17: two runs of the same extractor on the same text return the same map,
\* also in the service-backed mode
C17_ExtractionDeterministic ==
    \A i, j \in 1..Len(calls) :
        calls[i].call = calls[j].call => calls[i].sections = calls[j].sections

\* The runs on which the service failed returned the sections
FellBack(sections) ==
    \A i \in ServiceRuns : IsNone(calls[i].llm) => calls[i].sections = sections

\* C18: in the service-backed mode, when the service fails the extraction
\* returns the map of the regex extractor for the same text
C18_ServiceFailureFallsBack ==
    (\E i \in ServiceRuns : IsNone(calls[i].llm)) => FellBack(extract_sections(cv_state.raw_text))

\* The service has failed on the scenario text and the three sections of the
\* regex extractor have been returned
C18_Witness ==
    /\ cv_state.raw_text = TextSummaryExperienceSkills
    /\ \E i \in ServiceRuns :
            /\ IsNone(calls[i].llm)
            /\ Keys(calls[i].sections) = <<"summary", "experience", "skills">>
            /\ \A k \in 1..3 : calls[i].sections[k].confidence = RegexConfidence

-----------------------------------------------------------------------------
(* Properties of the analyzer's report *)

\* q is an integer nearest to n / d
Nearest(q, n, d) == 2 * (n - q * d) <= d /\ 2 * (q * d - n) <= d

\* The report has been produced from the record's sections, text and industry
Scored == pc = "tools" /\ ~IsNone(cv_state.analysis_scores)

\* The number the sum of the section scores is divided by
Divisor(section_scores) == IF Len(section_scores) = 0 THEN 1 ELSE Len(section_scores)

\* C19: every field of the report lies in [0, 1], and content_quality is 0
\* when there are no sections
C19_ScoresInRange ==
    Scored =>
        /\ \A field \in {"overall_score", "ats_compatibility", "keyword_density",
                          "formatting_score", "content_quality"} :
                /\ Value(cv_state.analysis_scores)[field] >= 0
                /\ Value(cv_state.analysis_scores)[field] <= 1000
        /\ \A k \in 1..Len(Value(cv_state.analysis_scores).section_scores) :
                /\ Value(cv_state.analysis_scores).section_scores[k].score >= 0
                /\ Value(cv_state.analysis_scores).section_scores[k].score <= ScoreUnit
        /\ cv_state.parsed_sections = <<>> => Value(cv_state.analysis_scores).content_quality = 0

\* A text without sections has been scored: its content_quality is 0 and
\* its overall score is not
C19_Witness ==
    /\ Scored
    /\ cv_state.parsed_sections = <<>>
    /\ Value(cv_state.analysis_scores).content_quality = 0
    /\ Value(cv_state.analysis_scores).overall_score > 0

\* The four weights are not negative and sum to 1
WeightsSumToOne ==
    /\ content_weight >= 0 /\ ats_weight >= 0 /\ keyword_weight >= 0 /\ format_weight >= 0
    /\ content_weight + ats_weight + keyword_weight + format_weight = 100

\* The overall score is the weighted sum of the mean section score and of
\* the report's stored ats, keyword and formatting scores, rounded
OverallFromStored(report) ==
    Nearest(report.overall_score,
            WeightedSumOfRounded(SumScores(report.section_scores),
                                 Divisor(report.section_scores), report.ats_compatibility,
                                 report.keyword_density, report.formatting_score),
            3000 * Divisor(report.section_scores))

\* C20 as stated: overall is the rounded weighted sum of the mean of the
\* report's section scores and of its stored ats, keyword and formatting
\* scores, the weights are not negative and sum to 1, and every stored value
\* is rounded to 3 decimal places
C20_OverallFromStoredScores ==
    Scored =>
        /\ OverallFromStored(Value(cv_state.analysis_scores))
        /\ WeightsSumToOne
        /\ \A k \in 1..Len(Value(cv_state.analysis_scores).section_scores) :
                Value(cv_state.analysis_scores).section_scores[k].score % 30 = 0

\* The report against the analyses of the text: A the ATS score, keyword the
\* keyword density and F the formatting score as computed, not rounded
ReportFromAnalyses(report, A, keyword, F) ==
    /\ Nearest(report.overall_score,
               WeightedSum(SumScores(report.section_scores), Divisor(report.section_scores),
                           A, keyword[1], keyword[2], F),
               3000 * Divisor(report.section_scores) * keyword[2])
    /\ report.ats_compatibility = A
    /\ Nearest(report.keyword_density, 1000 * keyword[1], keyword[2])
    /\ Nearest(report.formatting_score, F, 30)
    /\ Nearest(report.content_quality, SumScores(report.section_scores),
               30 * Divisor(report.section_scores))

\* C20: overall is the weighted sum of the mean of the report's section
\* scores and of the ats, keyword and formatting scores as computed, rounded
\* to 3 decimal places; the stored ats, keyword, formatting and content
\* scores are those values rounded to 3 decimal places; the weights are not
\* negative and sum to 1
C20_OverallFromAnalyses ==
    Scored =>
        /\ ReportFromAnalyses(Value(cv_state.analysis_scores),
                              check_ats_compatibility(cv_state.raw_text),
                              calculate_keyword_density(cv_state.raw_text, cv_state.target_industry),
                              analyze_formatting(cv_state.raw_text))
        /\ Value(cv_state.analysis_scores).section_scores =
                analyze_content_quality(cv_state.parsed_sections)
        /\ WeightsSumToOne

\* A report whose overall score, 0.148, is not the one its stored scores
\* give, 0.149
C20_Witness ==
    /\ Scored
    /\ cv_state.raw_text = "Dev.\n  Skills \nSUMMARY"
    /\ Value(cv_state.analysis_scores).overall_score = 148
    /\ ~OverallFromStored(Value(cv_state.analysis_scores))

-----------------------------------------------------------------------------
(* Properties of the requirement matching *)

\* A step of match_requirements_node whose try block raised nothing: the
\* except block alone adds a diagnostic
MatchedStep ==
    /\ pc = "match_requirements"
    /\ pc' # pc
    /\ cv_state'.processing_errors = cv_state.processing_errors

\* The role of the record, lowercased, is one of the known role names
KnownRole(state) ==
    /\ ~IsNone(state.target_role)
    /\ \E k \in 1..Len(role_keywords) : role_keywords[k].name = lower(Value(state.target_role))

\* The keywords of the record's role that its lowercased text does not contain
MissingKeywords(role, lowered) ==
    {role.words[k] : k \in {j \in 1..Len(role.words) : ~Contains(lowered, role.words[j])}}

\* The listed keywords are at most MaxKeywordsListed, all of the missing ones
\* when those are fewer, and each of them is missing
ListsMissing(listed, missing) ==
    /\ Len(listed) <= MaxKeywordsListed
    /\ Len(listed) = Min(MaxKeywordsListed, Cardinality(missing))
    /\ \A k \in 1..Len(listed) : strip(listed[k]) \in missing

\* The gap names the role and lists keywords, at most MaxKeywordsListed and
\* all of them when there are fewer, each one missing
GapListsMissing(gap, opening, missing) ==
    /\ startswith(gap, opening)
    /\ ListsMissing(split(Sub(gap, Len(opening) + 1, Len(gap)), ","), missing)

\* What C21 says of the gaps after a step on a record with a known role
GapAppended(before, after, target_role, missing) ==
    IF missing = {}
    THEN after = before
    ELSE /\ Len(after) = Len(before) + 1
         /\ SubSeq(after, 1, Len(before)) = before
         /\ GapListsMissing(after[Len(after)],
                            "Consider adding keywords relevant to " \o target_role \o ": ", missing)

\* C21: match_requirements changes only identified_gaps; when the role is
\* absent or not a known role name once lowercased the record is returned as
\* it was; when the role is known it appends exactly one gap, which lists at
\* most 5 missing keywords, if a keyword of the role is missing from the
\* lowercased text, and nothing if none is
C21_MatchAppendsOneGap ==
    [][MatchedStep =>
        /\ \A field \in DOMAIN cv_state \ {"identified_gaps"} : cv_state'[field] = cv_state[field]
        /\ IF KnownRole(cv_state)
           THEN GapAppended(cv_state.identified_gaps, cv_state'.identified_gaps,
                            Value(cv_state.target_role),
                            MissingKeywords(Get(role_keywords, lower(Value(cv_state.target_role))),
                                            lower(cv_state.raw_text)))
           ELSE cv_state'.identified_gaps = cv_state.identified_gaps]_vars

\* match_requirements has run on a record with the role in capitals, a gap
\* and a text without three of the role's keywords: the three are listed
C21_Witness ==
    /\ history = <<"match_requirements">>
    /\ cv_state.target_role = Some("SOFTWARE ENGINEER")
    /\ cv_state.identified_gaps =
        <<"existing gap",
          "Consider adding keywords relevant to SOFTWARE ENGINEER: data structures, debugging, version control">>

-----------------------------------------------------------------------------
(* Properties of the improvement generator *)

\* generate_content_improvements was called and its service raised
ServiceRaised ==
    /\ calls # <<>>
    /\ calls[1].call = "generate_content_improvements"
    /\ ~IsNone(calls[1].raised)

\* C22: when the generation service raises, generate_content_improvements
\* returns exactly one improvement, with confidence at most 0.5, whatever the
\* section name, the content, the gaps and the role
C22_OneLowConfidenceOnFailure ==
    ServiceRaised =>
        /\ Len(cv_state.suggested_improvements) = 1
        /\ cv_state.suggested_improvements[1].confidence <= 500

\* The service raised on a section the generator has nothing to say about
\* when the service answers: one improvement of that section is returned
C22_Witness ==
    /\ ServiceRaised
    /\ cv_state.parsed_sections[1].name = "summary"
    /\ cv_state.identified_gaps # <<>>
    /\ ~IsNone(cv_state.target_role)
    /\ Len(cv_state.suggested_improvements) = 1
    /\ cv_state.suggested_improvements[1].section = "summary"
    /\ cv_state.suggested_improvements[1].confidence = 500

-----------------------------------------------------------------------------
(* Properties of the record's sections and format *)

\* The fixed vocabulary of section names: the names of the pattern table
Vocabulary == {section_patterns[p].name : p \in 1..Len(section_patterns)}

\* C23: every key of parsed_sections is lowercase and is a name of the fixed
\* vocabulary or 'other' (the map is kept as the sequence of its sections,
\* each under its name)
C23_SectionKeysInVocabulary ==
    \A k \in 1..Len(cv_state.parsed_sections) :
        /\ lower(cv_state.parsed_sections[k].name) = cv_state.parsed_sections[k].name
        /\ cv_state.parsed_sections[k].name \in Vocabulary \cup {"other"}

\* The fields keep their values in the step
Kept(fields) == \A field \in fields : cv_state'[field] = cv_state[field]

\* C24: no stage changes a field produced earlier: the inputs never change;
\* raw_text, file_format and parsed_sections are unchanged by every stage
\* after parse_cv; analysis_scores by every stage after analyze_quality;
\* suggested_improvements by every stage after generate_improvements
C24_DataFlowsForward ==
    [][/\ Kept({"original_cv", "target_role", "target_industry"})
       /\ pc # "parse_cv" => Kept({"raw_text", "file_format", "parsed_sections"})
       /\ pc \notin {"parse_cv", "analyze_quality"} => Kept({"analysis_scores"})
       /\ pc \notin {"parse_cv", "analyze_quality", "match_requirements", "generate_improvements"}
            => Kept({"suggested_improvements"})]_vars

\* apply_improvements has amended a section in its copy: the enhanced text
\* is not the one the record's sections give, and the record's sections are
\* those analyze_quality scored
C24_Witness ==
    /\ "apply_improvements" \in Range(history)
    /\ cv_state.applied_improvements # <<>>
    /\ cv_state.parsed_sections # <<>>
    /\ cv_state.enhanced_cv # Some(join("\n", EnhancedParts(cv_state.parsed_sections)))
    /\ cv_state.processing_errors = <<>>

-----------------------------------------------------------------------------
(* Properties of the markdown extractor *)

\* DoclingParser.extract_sections has run on the text, the service enabled
\* or not
DoclingRun(use_llm) ==
    /\ calls # <<>>
    /\ calls[1].call = "DoclingParser.extract_sections"
    /\ calls[1].use_llm = use_llm

\* The content lines that are sub-headings
SubHeadings(lines) == {i \in 1..Len(lines) : startswith(lines[i], "###")}

\* The sections that the headings above the sub-headings name
HeadingNames(lines) ==
    {Value(heading_found(lines[i])) :
        i \in {j \in 1..Len(lines) \ SubHeadings(lines) : ~IsNone(heading_found(lines[j]))}}

\* What C25 says of the sections extracted from the content lines of a text
SubHeadingsAreBody(lines, sections) ==
    /\ \A k \in 1..Len(sections) : sections[k].name \in HeadingNames(lines) \cup {"other"}
    /\ \A i \in SubHeadings(lines) :
            \E k \in 1..Len(sections) : lines[i] \in Range(split(sections[k].content, "\n"))

\* C25: in the markdown extractor a section starts only at a heading that
\* is not a sub-heading and whose title matches a section pattern, and every
\* sub-heading line is kept as a line of the content of a section
C25_SubHeadingsAreBody ==
    DoclingRun(FALSE) => SubHeadingsAreBody(ContentLines(cv_state.raw_text), calls[1].sections)

\* C26: with the service enabled, when the service fails the sections are
\* those of the markdown extractor, so that every confidence is at least 0.9
C26_MarkdownFallback ==
    (DoclingRun(TRUE) /\ IsNone(calls[1].llm)) =>
        /\ calls[1].sections = docling_extract_sections(cv_state.raw_text, FALSE, None)
        /\ \A k \in 1..Len(calls[1].sections) : calls[1].sections[k].confidence >= confidence_base

-----------------------------------------------------------------------------
(* Properties of the suggestion parser *)

\* C27: every suggestion the parser returns has all of title, reason,
\* action, priority and impact: a block that deviates from the marker format
\* is dropped
C27_OnlyCompleteSuggestions ==
    (calls # <<>> /\ calls[1].call = "_parse_suggestions_from_response") =>
        \A k \in 1..Len(calls[1].suggestions) :
            DOMAIN calls[1].suggestions[k] = {"title", "reason", "action", "priority", "impact"}

-----------------------------------------------------------------------------
(* Properties of the whole record *)

\* C28: file_format is always one of pdf, docx, txt and unknown
C28_FileFormatInEnum == cv_state.file_format \in {"pdf", "docx", "txt", "unknown"}

\* C29: in every map the regex extractor returns, the sections in map order
\* have strictly increasing ordinals, whatever the text
C29_MapOrderIsDocumentOrder ==
    \A sections \in RegexMaps :
        \A k \in 1..(Len(sections) - 1) : sections[k].position < sections[k + 1].position

\* The run has ended and its apply_improvements step completed its try block
AppliedWithoutRaising ==
    /\ pc = "end"
    /\ "apply_improvements" \in Range(history)
    /\ ~startswith(Value(cv_state.enhancement_summary), "Error applying improvements: ")

\* C30 as stated: in every run in which apply_improvements executes without
\* raising, quality_check sees a non-empty enhanced_cv and a non-empty
\* applied_improvements, and the final quality score is 0.85
C30_AppliedScoresEnhanced ==
    AppliedWithoutRaising =>
        /\ Truthy(cv_state.enhanced_cv)
        /\ cv_state.applied_improvements # <<>>
        /\ cv_state.final_quality_score = Some(EnhancedQuality)

\* C30, amended: in every run in which apply_improvements executes without
\* raising, applied_improvements is non-empty; enhanced_cv is non-empty
\* exactly when parsed_sections is, and the final quality score is 0.85 when
\* parsed_sections is non-empty and 0.70 when it is empty
C30_AppliedScoresEnhancedWithSections ==
    AppliedWithoutRaising =>
        /\ cv_state.applied_improvements # <<>>
        /\ Truthy(cv_state.enhanced_cv) <=> cv_state.parsed_sections # <<>>
        /\ cv_state.final_quality_score =
                Some(IF cv_state.parsed_sections # <<>> THEN EnhancedQuality ELSE BaseQuality)

\* A run whose load failed has applied the improvement to the structure and
\* ended with the base score
C30_Witness ==
    /\ AppliedWithoutRaising
    /\ cv_state.parsed_sections = <<>>
    /\ cv_state.applied_improvements # <<>>
    /\ cv_state.enhanced_cv = Some("")
    /\ cv_state.final_quality_score = Some(BaseQuality)

====
